---- MODULE Spec2Model ----
(***************************************************************************)
(* Model of rb_wave: the window-function engine of                         *)
(* src/lib/window_function.c (materializer rb_wf_ary_new, the callbacks    *)
(* wf_cb_*, the dispatcher wf_iter_errhdl, the special-value fillers and   *)
(* the two iteration rules) together with the window formulas of           *)
(* src/lib/internal/solver/window_function and                             *)
(* src/ext/internal/solver/window_function.                                *)
(* The PCM buffer of src/lib/pcm.c is modelled in the second part (PcmSpec),*)
(* two interleaved Kaiser generations in the third (KaiserSpec) and the    *)
(* RIFF/WAVE reader and writer of src/ext/riff.c in the fourth (RiffSpec). *)
(*                                                                         *)
(* One behaviour is one call: Init draws the request (which entry point,   *)
(* the length, the shape parameter, and for a direct call of the C API     *)
(* wf_iter_cb the whole wf_iterfunc_t), and the action of that entry point *)
(* runs the whole call and leaves its outcome in `out`.                    *)
(***************************************************************************)
EXTENDS Integers, Sequences, FiniteSets, TLC

VARIABLES pc, req, memo, out, pcm, calls, riff

vars == <<pc, req, memo, out, pcm, calls, riff>>

(***************************************************************************)
(* Bounds of the model.                                                    *)
(***************************************************************************)
\* largest window length N that is requested
MaxLen == 6
\* largest finite value a tabulated kernel (a formula given to the C API) returns
MaxKern == 2

(***************************************************************************)
(* IEEE-754 doubles.  A double is a record [k, a, b, f]:                   *)
(*   k = "fin"  : the rational a/b in lowest terms, b > 0                  *)
(*   k = "sqrt" : sqrt(a/b), a/b in lowest terms and not a perfect square  *)
(*   k = "sym"  : the value of formula f at position a/2 of length b, for  *)
(*                the shape parameter of the call (a finite number that is *)
(*                not computed; two "sym" values are equal only when the   *)
(*                formula, position and length are)                        *)
(*   k = "nan", "pinf", "ninf" : NaN, +infinity, -infinity                 *)
(*   k = "uninit" : a cell of allocated memory never written               *)
(***************************************************************************)
RECURSIVE Gcd(_, _)
Gcd(x, y) == IF y = 0 THEN x ELSE Gcd(y, x % y)

Abs(x) == IF x < 0 THEN -x ELSE x

Fin(n, d) ==
    LET g == Gcd(Abs(n), Abs(d))
        s == IF d < 0 THEN -1 ELSE 1
    IN  [k |-> "fin", a |-> (s * n) \div g, b |-> (s * d) \div g, f |-> ""]

Zero == Fin(0, 1)
One  == Fin(1, 1)
NaN  == [k |-> "nan",  a |-> 0, b |-> 0, f |-> ""]
PInf == [k |-> "pinf", a |-> 0, b |-> 0, f |-> ""]
NInf == [k |-> "ninf", a |-> 0, b |-> 0, f |-> ""]
Uninit == [k |-> "uninit", a |-> 0, b |-> 0, f |-> ""]
Sym(fname, p2, N) == [k |-> "sym", a |-> p2, b |-> N, f |-> fname]

isnan(x) == x.k = "nan"
isinf(x) == x.k \in {"pinf", "ninf"}
IsFin(x) == x.k = "fin"

\* x == y of C: false as soon as one side is NaN
DEq(x, y) == ~isnan(x) /\ ~isnan(y) /\ x = y

\* x <= y of C on the doubles the callers compare (finite, infinite, NaN)
DLe(x, y) ==
    CASE isnan(x) \/ isnan(y) -> FALSE
      [] x.k = "ninf" \/ y.k = "pinf" -> TRUE
      [] x.k = "pinf" \/ y.k = "ninf" -> FALSE
      [] OTHER -> x.a * y.b <= y.a * x.b

\* x + y
DAdd(x, y) ==
    CASE isnan(x) \/ isnan(y) -> NaN
      [] isinf(x) /\ isinf(y) -> IF x = y THEN x ELSE NaN
      [] isinf(x) -> x
      [] isinf(y) -> y
      [] OTHER -> Fin(x.a * y.b + y.a * x.b, x.b * y.b)

\* x * y
DMul(x, y) ==
    LET sx == IF x.k = "pinf" THEN 1 ELSE IF x.k = "ninf" THEN -1 ELSE x.a
        sy == IF y.k = "pinf" THEN 1 ELSE IF y.k = "ninf" THEN -1 ELSE y.a
    IN  CASE isnan(x) \/ isnan(y) -> NaN
          [] isinf(x) \/ isinf(y) ->
                IF sx * sy = 0 THEN NaN ELSE IF sx * sy > 0 THEN PInf ELSE NInf
          [] OTHER -> Fin(x.a * y.a, x.b * y.b)

\* x / y
DDiv(x, y) ==
    CASE isnan(x) \/ isnan(y) -> NaN
      [] isinf(x) /\ isinf(y) -> NaN
      [] isinf(x) -> IF y.a >= 0 THEN x ELSE IF x.k = "pinf" THEN NInf ELSE PInf
      [] isinf(y) -> Zero
      [] y.a = 0 -> IF x.a = 0 THEN NaN ELSE IF x.a > 0 THEN PInf ELSE NInf
      [] OTHER -> Fin(x.a * y.b, x.b * y.a)

\* largest r with r * r <= n
RECURSIVE ISqrtFrom(_, _)
ISqrtFrom(n, r) == IF (r + 1) * (r + 1) <= n THEN ISqrtFrom(n, r + 1) ELSE r

ISqrt(n) == ISqrtFrom(n, 0)

\* sqrt(a/b) given the integer square roots ra, rb of a and b
SqrtOfRatio(a, b, ra, rb) ==
    IF ra * ra = a /\ rb * rb = b
    THEN Fin(ra, rb)
    ELSE [k |-> "sqrt", a |-> a, b |-> b, f |-> ""]

\* sqrt(x)
DSqrt(x) ==
    CASE isnan(x) \/ x.k = "ninf" -> NaN
      [] x.k = "pinf" -> PInf
      [] x.a < 0 -> NaN
      [] OTHER -> SqrtOfRatio(x.a, x.b, ISqrt(x.a), ISqrt(x.b))

\* x - y
DSub(x, y) == DAdd(x, DMul(Fin(-1, 1), y))

\* fabs(x)
fabs(x) ==
    CASE x.k = "ninf" -> PInf
      [] IsFin(x) -> Fin(Abs(x.a), x.b)
      [] OTHER -> x

\* exp(x): exact at 0 and at the infinities, otherwise a finite number that is
\* not computed
exp(x, fname, p2, N) ==
    CASE isnan(x) -> NaN
      [] x.k = "pinf" -> PInf
      [] x.k = "ninf" -> Zero
      [] x = Zero -> One
      [] OTHER -> Sym(fname, p2, N)

(***************************************************************************)
(* cyl_bessel_i0, the modified Bessel function I0.  Its argument is always *)
(* a square root here, so the operator takes the square x2 of the argument *)
(* and stays within the rationals.  I0 is even, I0(0) = 1, it grows with   *)
(* |x| and overflows to +infinity above I0OverflowArg; in between the      *)
(* model keeps the first two terms of the series sum (x^2/4)^k / (k!)^2.   *)
(***************************************************************************)
\* about the largest x with I0(x) <= DBL_MAX
I0OverflowArg == 713
\* pi^2, rounded
PiSq == 10

cyl_bessel_i0_sqrt(x2) ==
    CASE isnan(x2) -> NaN
      [] x2.k = "ninf" -> NaN
      [] x2.k = "pinf" -> PInf
      [] x2.a < 0 -> NaN
      [] ~DLe(x2, Fin(I0OverflowArg * I0OverflowArg, 1)) -> PInf
      [] OTHER -> DAdd(One, DDiv(x2, Fin(4, 1)))

(***************************************************************************)
(* The window formulas f(n, N, param).  The position n is passed doubled   *)
(* (p2 = 2n) because the rules evaluate at n and at n + 0.5.               *)
(***************************************************************************)
\* x = n / N
PosOverLen(p2, N) == DDiv(Fin(p2, 2), Fin(N, 1))

wf_rectangular_expr(p2, N, param) == One

wf_hamming_expr(p2, N, param) == Sym("hamming", p2, N)

\* alpha - (1 - alpha) * cos(2 pi n / N): the cosine is finite, so the product
\* is 0 when 1 - alpha is 0 and the result is alpha
\* variant: the coefficients exchanged, (1 - alpha) - alpha * cos(...)
wf_generalized_hamming_expr_exchanged(p2, N, alpha) ==
    CASE ~IsFin(alpha) -> NaN
      [] alpha = Zero -> DSub(One, alpha)
      [] OTHER -> Sym("generalized_hamming", p2, N)

wf_generalized_hamming_expr(p2, N, alpha) ==
    CASE ~IsFin(alpha) -> NaN
      [] DSub(One, alpha) = Zero -> DSub(alpha, Zero)
      [] OTHER -> Sym("generalized_hamming", p2, N)

wf_hann_expr(p2, N, param) == Sym("hann", p2, N)

\* 1 - 2 * fabs(n / N - 0.5)
wf_bartlett_expr(p2, N, param) ==
    DSub(One, DMul(Fin(2, 1), fabs(DSub(PosOverLen(p2, N), Fin(1, 2)))))

wf_blackman_expr(p2, N, param) == Sym("blackman", p2, N)

wf_gaussian_expr(p2, N, param) == Sym("gaussian", p2, N)

\* t1 = -1 + 2 n / N; exp(-(t1 * t1 / t2)) with t2 = 8 sigma^2 the parameter
GaussianExp(t1, t2, p2, N) ==
    exp(DMul(Fin(-1, 1), DDiv(DMul(t1, t1), t2)), "gaussian_with_param", p2, N)

wf_gaussian_with_param_expr(p2, N, t2) ==
    GaussianExp(DAdd(Fin(-1, 1), DDiv(Fin(p2, 1), Fin(N, 1))), t2, p2, N)

wf_gaussian_calc_param(sigma) == DMul(DMul(Fin(8, 1), sigma), sigma)

wf_kaiser_expr(p2, N, param) == Sym("kaiser", p2, N)

wf_bartlett_hann_expr(p2, N, param) == Sym("bartlett_hann", p2, N)

wf_blackman_harris_expr(p2, N, param) == Sym("blackman_harris", p2, N)

wf_nuttall_expr(p2, N, param) == Sym("nuttall", p2, N)

wf_blackman_nuttall_expr(p2, N, param) == Sym("blackman_nuttall", p2, N)

wf_flat_top_expr(p2, N, param) == Sym("flat_top", p2, N)

\* t1 = 4 n / N - 1; I0(pi * alpha * sqrt(1 - t1 * t1))
\* I0(pi * alpha * sqrt(u)); sqrt of a negative number is NaN
KbdBessel(alpha, u) ==
    IF IsFin(u) /\ u.a < 0 THEN NaN
    ELSE cyl_bessel_i0_sqrt(DMul(DMul(Fin(PiSq, 1), DMul(alpha, alpha)), u))

\* 1 - t1 * t1
KbdRadicand(t1) == DSub(One, DMul(t1, t1))

wf_kbd_with_param_expr(p2, N, alpha) ==
    KbdBessel(alpha, KbdRadicand(DSub(DDiv(Fin(2 * p2, 1), Fin(N, 1)), One)))

(***************************************************************************)
(* wf_kaiser_with_param_expr keeps a static memo slot: check, prev_alpha,  *)
(* denom = I0(prev_alpha) and reach_inf = isinf(denom).  The operator      *)
(* returns the value and the memo slot after the evaluation.               *)
(***************************************************************************)
MemoFresh == [check |-> FALSE, prev_alpha |-> Zero, reach_inf |-> FALSE]

\* variant: the memo is refreshed on the first evaluation only
KaiserMemo_first_only(alpha, m) ==
    IF ~m.check
    THEN [check |-> TRUE, prev_alpha |-> alpha,
          reach_inf |-> isinf(cyl_bessel_i0_sqrt(DMul(alpha, alpha)))]
    ELSE m

\* if (!check || prev_alpha != alpha) { prev_alpha = alpha; denom = ...; }
KaiserMemo(alpha, m) ==
    IF ~m.check \/ ~DEq(m.prev_alpha, alpha)
    THEN [check |-> TRUE, prev_alpha |-> alpha,
          reach_inf |-> isinf(cyl_bessel_i0_sqrt(DMul(alpha, alpha)))]
    ELSE m

\* cyl_bessel_i0(alpha * 2 * sqrt(-(x - 1) * x))
KaiserNumerator(alpha, x) ==
    cyl_bessel_i0_sqrt(DMul(DMul(Fin(4, 1), DMul(alpha, alpha)),
                            DMul(DSub(One, x), x)))

\* denom, which is cyl_bessel_i0(prev_alpha) of the memo slot
KaiserDenom(m) == cyl_bessel_i0_sqrt(DMul(m.prev_alpha, m.prev_alpha))

\* variant: the overflow of the denominator is not looked at
KaiserValue_overflow_ignored(p2, N, alpha, m2) ==
    [val |-> DDiv(KaiserNumerator(alpha, PosOverLen(p2, N)), KaiserDenom(m2)),
     memo |-> m2]

\* if (reach_inf) return x == 0.5; else return I0(...) / denom;
KaiserValue(p2, N, alpha, m2) ==
    [val |-> IF m2.reach_inf
             THEN (IF DEq(PosOverLen(p2, N), Fin(1, 2)) THEN One ELSE Zero)
             ELSE DDiv(KaiserNumerator(alpha, PosOverLen(p2, N)), KaiserDenom(m2)),
     memo |-> m2]

wf_kaiser_with_param_expr(p2, N, alpha, m) ==
    KaiserValue(p2, N, alpha, KaiserMemo(alpha, m))

(***************************************************************************)
(* The iteration engine.  A run of the engine threads the record           *)
(*   [w, oob, ev, memo]                                                    *)
(* through its loops: w is the caller's buffer of N doubles (indices       *)
(* 0..N-1), oob the set of indices written outside it, ev the sequence of  *)
(* events of the call so far and memo the static memo slot of the Kaiser   *)
(* formula.  An event is a record [e, a, b].                               *)
(***************************************************************************)
Ev(e, a, b) == [e |-> e, a |-> a, b |-> b]

Log(st, e, a, b) == [st EXCEPT !.ev = Append(@, Ev(e, a, b))]

\* w[i] = v
Store(st, i, v) ==
    IF i \in DOMAIN st.w
    THEN [st EXCEPT !.w = [@ EXCEPT ![i] = v]]
    ELSE [st EXCEPT !.oob = @ \cup {i}]

\* w[i]
Load(st, i) == IF i \in DOMAIN st.w THEN st.w[i] ELSE Uninit

\* wfif.iterfunc(n, N, wfif.param): [val, st], the call logged in st.ev.
\* A wf_iterfunc_t holds its formula as the table of the formula's values,
\* iterfunc[p2] = f(p2/2, N, param); the one formula with static state,
\* wf_kaiser_with_param_expr (memoized = TRUE), is evaluated on the memo slot.
Evaluated(st, p2, N, k) ==
    [val |-> k.val, st |-> [Log(st, "formula", p2, N) EXCEPT !.memo = k.memo]]

IterFunc(wfif, p2, N, st) ==
    IF wfif.memoized
    THEN Evaluated(st, p2, N,
                   wf_kaiser_with_param_expr(p2, N, wfif.param, st.memo))
    ELSE Evaluated(st, p2, N, [val |-> wfif.iterfunc[p2], memo |-> st.memo])

\* for (n = 0; n < N; n++) w[n] = 1.;
RECURSIVE MakeRectLoop(_, _, _)
MakeRectLoop(n, N, st) ==
    IF n < N THEN MakeRectLoop(n + 1, N, Store(st, n, One)) ELSE st

wf_iter_make_rect(N, st) == MakeRectLoop(0, N, Log(st, "fill_rect", N, 0))

RECURSIVE MakeKurtEvenLoop(_, _, _)
MakeKurtEvenLoop(n, N, st) ==
    IF n < N \div 2
    THEN MakeKurtEvenLoop(n + 1, N,
            IF n = 0 THEN Store(st, n, Zero)
            ELSE Store(Store(st, n, Zero), N - n, Zero))
    ELSE st

RECURSIVE MakeKurtOddLoop(_, _, _)
MakeKurtOddLoop(n, N, st) ==
    IF n < N \div 2
    THEN MakeKurtOddLoop(n + 1, N, Store(Store(st, n, Zero), N - 1 - n, Zero))
    ELSE st

\* variant: the peak of the kurtonic fill at w[(N-1)/2]
wf_iter_make_kurt_low_peak(N, st) ==
    IF N % 2 = 0
    THEN Store(Store(MakeKurtEvenLoop(0, N, Log(st, "fill_kurt", N, 0)),
                     N \div 2, Zero), (N - 1) \div 2, One)
    ELSE Store(MakeKurtOddLoop(0, N, Log(st, "fill_kurt", N, 0)), N \div 2, One)

wf_iter_make_kurt(N, st) ==
    IF N % 2 = 0
    THEN Store(MakeKurtEvenLoop(0, N, Log(st, "fill_kurt", N, 0)), N \div 2, One)
    ELSE Store(MakeKurtOddLoop(0, N, Log(st, "fill_kurt", N, 0)), N \div 2, One)

wf_iter_cb_sp(handle, N, st) ==
    CASE handle = "WFIF_RECT" -> wf_iter_make_rect(N, st)
      [] handle = "WFIF_KURT" -> wf_iter_make_kurt(N, st)
      [] OTHER -> st

\* variant: the infinite test returns the policy declared for NaN
wf_iter_errhdl_nan_policy(wfif) ==
    IF wfif.handle_param_nan # "WFIF_NOCNTL" /\ isnan(wfif.param)
    THEN wfif.handle_param_nan
    ELSE IF wfif.handle_param_inf # "WFIF_NOCNTL" /\ isinf(wfif.param)
    THEN wfif.handle_param_nan
    ELSE IF wfif.handle_param_zero # "WFIF_NOCNTL" /\ DEq(wfif.param, Zero)
    THEN wfif.handle_param_zero
    ELSE "WFIF_NOCNTL"

wf_iter_errhdl(wfif) ==
    IF wfif.handle_param_nan # "WFIF_NOCNTL" /\ isnan(wfif.param)
    THEN wfif.handle_param_nan
    ELSE IF wfif.handle_param_inf # "WFIF_NOCNTL" /\ isinf(wfif.param)
    THEN wfif.handle_param_inf
    ELSE IF wfif.handle_param_zero # "WFIF_NOCNTL" /\ DEq(wfif.param, Zero)
    THEN wfif.handle_param_zero
    ELSE "WFIF_NOCNTL"

\* variant: the even loop mirrors to w[N-1-n]
Rule1dEvenBody_shifted(n, N, r) ==
    Store(Store(r.st, n, r.val), N - 1 - n, r.val)

\* body of the even loop, r the formula's value and the state after the call:
\* if (n == 0) { w[n] = value; continue; }  w[n] = value; w[N-n] = value;
Rule1dEvenBody(n, N, r) ==
    IF n = 0 THEN Store(r.st, n, r.val)
    ELSE Store(Store(r.st, n, r.val), N - n, r.val)

RECURSIVE Rule1dEvenLoop(_, _, _, _)
Rule1dEvenLoop(wfif, n, N, st) ==
    IF n < N \div 2
    THEN Rule1dEvenLoop(wfif, n + 1, N,
                        Rule1dEvenBody(n, N, IterFunc(wfif, 2 * n, N, st)))
    ELSE st

\* variant: the odd loop stores w[n] only
Rule1dOddBody_unmirrored(n, N, r) == Store(r.st, n, r.val)

\* body of the odd loop: w[n] = value; w[N-1-n] = value;
Rule1dOddBody(n, N, r) == Store(Store(r.st, n, r.val), N - 1 - n, r.val)

RECURSIVE Rule1dOddLoop(_, _, _, _)
Rule1dOddLoop(wfif, n, N, st) ==
    IF n < N \div 2
    THEN Rule1dOddLoop(wfif, n + 1, N,
                       Rule1dOddBody(n, N, IterFunc(wfif, 2 * n + 1, N, st)))
    ELSE st

\* variant: the rule without the final w[N/2] = 1.
wf_iter_rule_1d_uncentered(wfif, N, st) ==
    IF N % 2 = 0
    THEN Rule1dEvenLoop(wfif, 0, N, Log(st, "rule_1d", N, 0))
    ELSE Rule1dOddLoop(wfif, 0, N, Log(st, "rule_1d", N, 0))

wf_iter_rule_1d(wfif, N, st) ==
    IF N % 2 = 0
    THEN Store(Rule1dEvenLoop(wfif, 0, N, Log(st, "rule_1d", N, 0)), N \div 2, One)
    ELSE Store(Rule1dOddLoop(wfif, 0, N, Log(st, "rule_1d", N, 0)), N \div 2, One)

\* sum += value, for the running sum `sum` and the formula's result r
MdctAdd(sum, r) == [sum |-> DAdd(sum, r.val), st |-> r.st]

\* w[n] = sum
MdctKeep(n, a) == [sum |-> a.sum, st |-> Store(a.st, n, a.sum)]

\* first loop of the MDCT rule: sum += value; w[n] = sum.  off is 0 (even N)
\* or 1 (odd N, position n + 0.5); a is [sum, st].
RECURSIVE MdctSumLoop(_, _, _, _, _)
MdctSumLoop(wfif, off, n, N, a) ==
    IF n < N \div 2
    THEN MdctSumLoop(wfif, off, n + 1, N,
            MdctKeep(n, MdctAdd(a.sum, IterFunc(wfif, 2 * n + off, N, a.st))))
    ELSE a

\* variant: the total without the midpoint term
MdctMid_skipped(wfif, N, a) == a

\* sum += iterfunc(N/2, N, param) (even N), iterfunc(N/2.0, N, param) (odd N)
MdctMid(wfif, N, a) == MdctAdd(a.sum, IterFunc(wfif, N, N, a.st))

\* w[N-1-n] = w[n]
MdctMirror(n, N, st) == Store(st, N - 1 - n, Load(st, n))

\* variant: the normalization without the test for an infinite running sum
MdctNormalize_unclamped(n, sum, st) ==
    Store(st, n, DSqrt(DDiv(Load(st, n), sum)))

\* w[n] = isinf(w[n]) ? 1. : sqrt(w[n]/sum)
MdctNormalize(n, sum, st) ==
    Store(st, n, IF isinf(Load(st, n)) THEN One ELSE DSqrt(DDiv(Load(st, n), sum)))

RECURSIVE MdctNormLoop(_, _, _, _)
MdctNormLoop(n, N, sum, st) ==
    IF n < N \div 2
    THEN MdctNormLoop(n + 1, N, sum, MdctMirror(n, N, MdctNormalize(n, sum, st)))
    ELSE st

MdctNorm(N, a) == MdctNormLoop(0, N, a.sum, a.st)

\* variant: neither branch stores w[N/2]
MdctEnd_unforced(N, st) == st

\* the odd branch ends with w[N/2] = 1.; the even branch does not
MdctEnd(N, st) == IF N % 2 = 0 THEN st ELSE Store(st, N \div 2, One)

wf_iter_rule_mdct(wfif, N, st) ==
    MdctEnd(N, MdctNorm(N, MdctMid(wfif, N,
        MdctSumLoop(wfif, N % 2, 0, N,
                    [sum |-> Zero, st |-> Log(st, "rule_mdct", N, 0)]))))

wf_iter_cb(wfif, N, st) ==
    LET handle == wf_iter_errhdl(wfif)
    IN  IF handle # "WFIF_NOCNTL"
        THEN wf_iter_cb_sp(handle, N, st)
        ELSE CASE wfif.iter_rule = "WFIF_ITER_1D" -> wf_iter_rule_1d(wfif, N, st)
               [] wfif.iter_rule = "WFIF_ITER_MDCT" -> wf_iter_rule_mdct(wfif, N, st)
               [] OTHER -> st

(***************************************************************************)
(* The callbacks wf_cb_*: each builds its wf_iterfunc_t and calls          *)
(* wf_iter_cb.  A callback returns [raised, st]; only the generalized      *)
(* Hamming callback can raise (RangeError from calc_param).                *)
(***************************************************************************)
Wfif(iterfunc, memoized, param, iter_rule, hnan, hinf, hzero) ==
    [iterfunc |-> iterfunc, memoized |-> memoized, param |-> param,
     iter_rule |-> iter_rule, handle_param_nan |-> hnan,
     handle_param_inf |-> hinf, handle_param_zero |-> hzero]

\* the callbacks without a shape parameter: parameter 0., 1D rule, no override
PlainWfif(iterfunc) ==
    Wfif(iterfunc, FALSE, Zero, "WFIF_ITER_1D",
         "WFIF_NOCNTL", "WFIF_NOCNTL", "WFIF_NOCNTL")

Returned(st) == [raised |-> FALSE, st |-> st]

wf_cb_rectangular(param, len, st) ==
    Returned(wf_iter_cb(
        PlainWfif([p2 \in 0..len |-> wf_rectangular_expr(p2, len, Zero)]), len, st))

wf_cb_hamming(param, len, st) ==
    Returned(wf_iter_cb(
        PlainWfif([p2 \in 0..len |-> wf_hamming_expr(p2, len, Zero)]), len, st))

wf_cb_hann(param, len, st) ==
    Returned(wf_iter_cb(
        PlainWfif([p2 \in 0..len |-> wf_hann_expr(p2, len, Zero)]), len, st))

wf_cb_bartlett(param, len, st) ==
    Returned(wf_iter_cb(
        PlainWfif([p2 \in 0..len |-> wf_bartlett_expr(p2, len, Zero)]), len, st))

wf_cb_blackman(param, len, st) ==
    Returned(wf_iter_cb(
        PlainWfif([p2 \in 0..len |-> wf_blackman_expr(p2, len, Zero)]), len, st))

wf_cb_gaussian(param, len, st) ==
    Returned(wf_iter_cb(
        PlainWfif([p2 \in 0..len |-> wf_gaussian_expr(p2, len, Zero)]), len, st))

wf_cb_kaiser(param, len, st) ==
    Returned(wf_iter_cb(
        PlainWfif([p2 \in 0..len |-> wf_kaiser_expr(p2, len, Zero)]), len, st))

wf_cb_bartlett_hann(param, len, st) ==
    Returned(wf_iter_cb(
        PlainWfif([p2 \in 0..len |-> wf_bartlett_hann_expr(p2, len, Zero)]), len, st))

wf_cb_blackman_harris(param, len, st) ==
    Returned(wf_iter_cb(
        PlainWfif([p2 \in 0..len |-> wf_blackman_harris_expr(p2, len, Zero)]), len, st))

wf_cb_nuttall(param, len, st) ==
    Returned(wf_iter_cb(
        PlainWfif([p2 \in 0..len |-> wf_nuttall_expr(p2, len, Zero)]), len, st))

wf_cb_blackman_nuttall(param, len, st) ==
    Returned(wf_iter_cb(
        PlainWfif([p2 \in 0..len |-> wf_blackman_nuttall_expr(p2, len, Zero)]), len, st))

wf_cb_flat_top(param, len, st) ==
    Returned(wf_iter_cb(
        PlainWfif([p2 \in 0..len |-> wf_flat_top_expr(p2, len, Zero)]), len, st))

\* variant: the domain test without its upper bound
wf_generalized_hamming_calc_param_unbounded(alpha) == DLe(Fin(1, 2), alpha)

\* TRUE when wf_generalized_hamming_calc_param returns alpha, FALSE when it
\* raises RangeError
wf_generalized_hamming_calc_param(alpha) ==
    DLe(Fin(1, 2), alpha) /\ DLe(alpha, One)

wf_cb_generalized_hamming(alpha, len, st) ==
    IF wf_generalized_hamming_calc_param(alpha)
    THEN Returned(wf_iter_cb(
            Wfif([p2 \in 0..len |-> wf_generalized_hamming_expr(p2, len, alpha)],
                 FALSE, alpha, "WFIF_ITER_1D",
                 "WFIF_NOCNTL", "WFIF_NOCNTL", "WFIF_NOCNTL"), len, st))
    ELSE [raised |-> TRUE, st |-> Log(st, "raise", 0, 0)]

GaussianWfif(t2, len) ==
    Wfif([p2 \in 0..len |-> wf_gaussian_with_param_expr(p2, len, t2)],
         FALSE, t2, "WFIF_ITER_1D", "WFIF_KURT", "WFIF_NOCNTL", "WFIF_KURT")

wf_cb_gaussian_with_param(sigma, len, st) ==
    Returned(wf_iter_cb(GaussianWfif(wf_gaussian_calc_param(sigma), len), len, st))

wf_cb_kaiser_with_param(alpha, len, st) ==
    Returned(wf_iter_cb(
        Wfif([p2 \in 0..len |-> Zero], TRUE, alpha, "WFIF_ITER_1D",
             "WFIF_KURT", "WFIF_KURT", "WFIF_RECT"), len, st))

wf_cb_kbd_with_param(alpha, len, st) ==
    Returned(wf_iter_cb(
        Wfif([p2 \in 0..len |-> wf_kbd_with_param_expr(p2, len, alpha)],
             FALSE, alpha, "WFIF_ITER_MDCT",
             "WFIF_RECT", "WFIF_RECT", "WFIF_NOCNTL"), len, st))

(***************************************************************************)
(* The materializer.  rb_wf_ary_new allocates the result array, then the   *)
(* scratch buffer w, runs the callback func and stores w[0..len-1] into    *)
(* the array.  The outcome is [raised, returned, result, w, oob, ev]; when *)
(* the callback raises nothing is returned.                                *)
(***************************************************************************)
NewBuf(len) == [i \in 0..(len - 1) |-> Uninit]

Outcome(raised, returned, st) ==
    [raised |-> raised, returned |-> returned,
     result |-> IF returned
                THEN [i \in 1..Cardinality(DOMAIN st.w) |-> st.w[i - 1]]
                ELSE << >>,
     w |-> st.w, oob |-> st.oob, ev |-> st.ev]

\* for (n = 0; n < len; n++) rb_ary_store(ary, n, DBL2NUM(w[n])); return ary;
\* for the callback's result r (not reached when the callback raised)
StoreAndReturn(r) ==
    [out |-> Outcome(r.raised, ~r.raised, r.st), memo |-> r.st.memo]

\* VALUE ary = rb_ary_new2(len); double *w = ALLOC_N(double, len);
\* the state the callback is called in, m the static memo at the call
Allocated(len, m) ==
    [w |-> NewBuf(len), oob |-> {}, memo |-> m,
     ev |-> <<Ev("alloc_ary", len, 0), Ev("alloc_w", len, 0)>>]

\* rb_wf_ary_new(func, len, param), for r the result of func(param, len, w)
\* called in the state Allocated(len, m)
rb_wf_ary_new(r) == StoreAndReturn(r)

(***************************************************************************)
(* Requests.  A request is [api, len, argc, param, iter_rule, hnan, hinf,  *)
(* hzero, kern]: the entry point, the length, the number of arguments (2   *)
(* when the shape parameter is given) and the shape parameter; for a       *)
(* direct call of wf_iter_cb also the rule, the three override policies    *)
(* and the formula, given as the table kern of its values (index n for     *)
(* position n or n + 0.5, index N/2 for the midpoint).                     *)
(***************************************************************************)
Lens == 0..MaxLen

\* shape parameters: NaN, the infinities, 0, values inside and outside the
\* domain [0.5, 1] of the generalized Hamming window, and one (800) at which
\* I0 overflows
ParamVals ==
    {NaN, PInf, NInf, Zero, Fin(-1, 2), Fin(1, 4), Fin(1, 2), Fin(3, 4), One,
     Fin(3, 2), Fin(3, 1), Fin(800, 1)}

SpEvalTypes == {"WFIF_NOCNTL", "WFIF_RECT", "WFIF_KURT"}

IterRules == {"WFIF_ITER_1D", "WFIF_ITER_MDCT"}

KernVals == {Fin(v, 1) : v \in 0..MaxKern} \cup {PInf}

NoKern == [i \in 0..0 |-> Zero]

OneArgApis ==
    {"wf_rectangular", "wf_hamming", "wf_hann", "wf_bartlett", "wf_blackman",
     "wf_gaussian", "wf_kaiser", "wf_bartlett_hann", "wf_blackman_harris",
     "wf_nuttall", "wf_blackman_nuttall", "wf_flat_top"}

TwoArgApis == {"wf_hamming", "wf_hann", "wf_gaussian", "wf_kaiser", "wf_kbd"}

RubyRequest(a, n, c, p) ==
    [api |-> a, len |-> n, argc |-> c, param |-> p,
     iter_rule |-> "WFIF_ITER_1D", hnan |-> "WFIF_NOCNTL",
     hinf |-> "WFIF_NOCNTL", hzero |-> "WFIF_NOCNTL", kern |-> NoKern]

RubyRequests ==
    {RubyRequest(a, n, 1, Zero) : a \in OneArgApis, n \in Lens}
    \cup
    {RubyRequest(a, n, 2, p) : a \in TwoArgApis, n \in Lens, p \in ParamVals}

\* the tables of a direct call: every table when no override is declared,
\* the constant tables otherwise (a fill never reads the table)
KernTables(n, hnan, hinf, hzero) ==
    IF {hnan, hinf, hzero} = {"WFIF_NOCNTL"}
    THEN [0..(n \div 2) -> KernVals]
    ELSE {[i \in 0..(n \div 2) |-> v] : v \in KernVals}

CApiRequestsOf(n, hnan, hinf, hzero) ==
    {[api |-> "wf_iter_cb", len |-> n, argc |-> 0, param |-> p,
      iter_rule |-> r, hnan |-> hnan, hinf |-> hinf, hzero |-> hzero,
      kern |-> t] :
        p \in {NaN, PInf, NInf, Zero, One}, r \in IterRules,
        t \in KernTables(n, hnan, hinf, hzero)}

CApiRequests ==
    UNION {CApiRequestsOf(n, h[1], h[2], h[3]) :
            n \in Lens, h \in SpEvalTypes \X SpEvalTypes \X SpEvalTypes}

Requests == RubyRequests \cup CApiRequests

\* the static memo slot of wf_kaiser_with_param_expr: untouched, or as an
\* earlier kaiser(len, 3) or kaiser(len, 800) left it
MemoStates ==
    {MemoFresh,
     [check |-> TRUE, prev_alpha |-> Fin(3, 1), reach_inf |-> FALSE],
     [check |-> TRUE, prev_alpha |-> Fin(800, 1), reach_inf |-> TRUE]}

NoOut ==
    [raised |-> FALSE, returned |-> FALSE, result |-> << >>, w |-> NewBuf(0),
     oob |-> {}, ev |-> << >>]

\* no RIFF call: nothing to write, no file, nothing written or read
NoRiff ==
    [stage |-> "none", pcm_ary |-> << >>, bits |-> 0, char_signed |-> TRUE,
     file |-> << >>,
     wrote |-> [raised |-> FALSE, error |-> "none", msg |-> ""],
     read |-> [raised |-> FALSE, error |-> "none", msg |-> "", ev |-> << >>,
                pcm_ary |-> << >>]]

\* no interleaved calls
NoCalls == [c |-> << >>, order |-> << >>]

\* the last operation on the PCM object: its name, argument, whether it
\* raised, the pointer it returned, and the length, pointer and samples
\* before it
NoPcmOp ==
    [op |-> "none", arg |-> 0, raised |-> FALSE, ret |-> "none",
     length0 |-> 0, s0 |-> "NULL", data0 |-> << >>, fs0 |-> 0]

\* no Wave::PCM object yet.  A struct PCM is [fs, length, s, data]: s is
\* "NULL", "live" (points to storage the object owns) or "freed" (points to
\* storage already given to xfree), data the contents of the live storage.
PcmNone ==
    [made |-> FALSE, aborted |-> FALSE, destroyed |-> FALSE, fs |-> 0,
     length |-> 0, s |-> "NULL", data |-> << >>, last |-> NoPcmOp]

Init ==
    /\ pc = "ready"
    /\ req \in Requests
    /\ memo \in (IF req.api = "wf_kaiser" THEN MemoStates ELSE {MemoFresh})
    /\ out = NoOut
    /\ pcm = PcmNone
    /\ calls = NoCalls
    /\ riff = NoRiff

(***************************************************************************)
(* The entry points.  Each action is one whole call.                       *)
(***************************************************************************)
Return(r) ==
    /\ out' = r.out
    /\ memo' = r.memo
    /\ pc' = "done"
    /\ UNCHANGED <<req, pcm, calls, riff>>

Ready(api) == pc = "ready" /\ req.api = api

\* entry points of one argument: return rb_wf_ary_new(cb, NUM2LONG(len), 0.)
wf_rectangular ==
    /\ Ready("wf_rectangular")
    /\ Return(rb_wf_ary_new(wf_cb_rectangular(Zero, req.len, Allocated(req.len, memo))))

wf_bartlett ==
    /\ Ready("wf_bartlett")
    /\ Return(rb_wf_ary_new(wf_cb_bartlett(Zero, req.len, Allocated(req.len, memo))))

wf_blackman ==
    /\ Ready("wf_blackman")
    /\ Return(rb_wf_ary_new(wf_cb_blackman(Zero, req.len, Allocated(req.len, memo))))

wf_bartlett_hann ==
    /\ Ready("wf_bartlett_hann")
    /\ Return(rb_wf_ary_new(wf_cb_bartlett_hann(Zero, req.len, Allocated(req.len, memo))))

wf_blackman_harris ==
    /\ Ready("wf_blackman_harris")
    /\ Return(rb_wf_ary_new(wf_cb_blackman_harris(Zero, req.len, Allocated(req.len, memo))))

wf_nuttall ==
    /\ Ready("wf_nuttall")
    /\ Return(rb_wf_ary_new(wf_cb_nuttall(Zero, req.len, Allocated(req.len, memo))))

wf_blackman_nuttall ==
    /\ Ready("wf_blackman_nuttall")
    /\ Return(rb_wf_ary_new(wf_cb_blackman_nuttall(Zero, req.len, Allocated(req.len, memo))))

wf_flat_top ==
    /\ Ready("wf_flat_top")
    /\ Return(rb_wf_ary_new(wf_cb_flat_top(Zero, req.len, Allocated(req.len, memo))))

\* entry points of one or two arguments
wf_hamming ==
    /\ Ready("wf_hamming")
    /\ Return(IF req.argc = 1
              THEN rb_wf_ary_new(wf_cb_hamming(Zero, req.len, Allocated(req.len, memo)))
              ELSE rb_wf_ary_new(wf_cb_generalized_hamming(req.param, req.len, Allocated(req.len, memo))))

wf_hann ==
    /\ Ready("wf_hann")
    /\ Return(IF req.argc = 1
              THEN rb_wf_ary_new(wf_cb_hann(Zero, req.len, Allocated(req.len, memo)))
              ELSE rb_wf_ary_new(wf_cb_generalized_hamming(req.param, req.len, Allocated(req.len, memo))))

wf_gaussian ==
    /\ Ready("wf_gaussian")
    /\ Return(IF req.argc = 1
              THEN rb_wf_ary_new(wf_cb_gaussian(Zero, req.len, Allocated(req.len, memo)))
              ELSE rb_wf_ary_new(wf_cb_gaussian_with_param(req.param, req.len, Allocated(req.len, memo))))

wf_kaiser ==
    /\ Ready("wf_kaiser")
    /\ Return(IF req.argc = 1
              THEN rb_wf_ary_new(wf_cb_kaiser(Zero, req.len, Allocated(req.len, memo)))
              ELSE rb_wf_ary_new(wf_cb_kaiser_with_param(req.param, req.len, Allocated(req.len, memo))))

wf_kbd ==
    /\ Ready("wf_kbd")
    /\ Return(rb_wf_ary_new(wf_cb_kbd_with_param(req.param, req.len, Allocated(req.len, memo))))

\* a direct call wf_iter_cb(wfif, N, w) of the C API on a caller's buffer of
\* N doubles; the outcome shows the buffer after the call
CApiCall ==
    /\ Ready("wf_iter_cb")
    /\ Return(StoreAndReturn(Returned(wf_iter_cb(
            Wfif([p2 \in 0..req.len |-> req.kern[p2 \div 2]], FALSE,
                 req.param, req.iter_rule, req.hnan, req.hinf, req.hzero),
            req.len,
            [w |-> NewBuf(req.len), oob |-> {}, memo |-> memo, ev |-> << >>]))))

Next ==
    \/ wf_rectangular
    \/ wf_hamming
    \/ wf_hann
    \/ wf_bartlett
    \/ wf_blackman
    \/ wf_gaussian
    \/ wf_kaiser
    \/ wf_bartlett_hann
    \/ wf_blackman_harris
    \/ wf_nuttall
    \/ wf_blackman_nuttall
    \/ wf_flat_top
    \/ wf_kbd
    \/ CApiCall

Spec == Init /\ [][Next]_vars

(***************************************************************************)
(* The PCM buffer, src/lib/pcm.c.  One Wave::PCM object is followed        *)
(* through its construction (rb_pcm_new) and any sequence of length=, fs=, *)
(* map! and rb_waveform_data_ptr.  RUBY_ASSERT is compiled out.            *)
(*                                                                         *)
(* xfree of a pointer that was already given to xfree is undefined         *)
(* behaviour: the allocator either detects the double free and aborts the  *)
(* process, or it goes undetected and the call returns.                    *)
(***************************************************************************)
\* largest length of the PCM buffer
MaxPcmLen == 3

FS_DEF == 48000

SampleVals == {Zero, One, Fin(-1, 1)}

PcmLens == (-1)..MaxPcmLen

PcmRates == {-1, 0, 44100, FS_DEF}

Zeros(n) == [i \in 1..n |-> Zero]

\* the first n elements of d followed by zeros, n elements in all:
\* REALLOC_N(ptr->s, double, n) and the zero fill of the new elements
Resized(d, n) == [i \in 1..n |-> IF i <= Len(d) THEN d[i] ELSE Zero]

\* if (ptr->s != NULL) xfree(ptr->s): the outcomes.  ptr->s is not reset.
XFreeSamples(p) ==
    CASE p.s = "NULL" -> {p}
      [] p.s = "live" -> {[p EXCEPT !.s = "freed", !.data = << >>]}
      [] OTHER -> {p, [p EXCEPT !.aborted = TRUE]}

\* pcm_resize(ptr, n): the set of outcomes [raised, p]
pcm_resize(p, n) ==
    IF n < 0
    THEN {[raised |-> TRUE, p |-> p]}
    ELSE IF n = 0
    THEN {[raised |-> FALSE, p |-> IF q.aborted THEN q ELSE [q EXCEPT !.length = 0]] :
            q \in XFreeSamples(p)}
    ELSE IF p.length = n
    THEN {[raised |-> FALSE, p |-> p]}
    ELSE IF p.length = 0
    THEN {[raised |-> FALSE,
           p |-> [p EXCEPT !.s = "live", !.data = Zeros(n), !.length = n]]}
    ELSE {[raised |-> FALSE,
           p |-> [p EXCEPT !.data = Resized(p.data, n), !.length = n]]}

\* the values of the conditions under RUBY_ASSERT that pcm_resize(ptr, n)
\* reaches: ptr->length < 0 on entry, ptr->s != NULL before ALLOC_N,
\* ptr->s == NULL before REALLOC_N
pcm_resize_asserts(p, n) ==
    {p.length < 0}
    \cup (IF n > 0 /\ p.length # n /\ p.length = 0 THEN {p.s # "NULL"} ELSE {})
    \cup (IF n > 0 /\ p.length # n /\ p.length # 0 THEN {p.s = "NULL"} ELSE {})

\* the value of the condition under RUBY_ASSERT in pcm_fs_set: ptr->fs <= 0
pcm_fs_set_asserts(p) == {p.fs <= 0}

\* pcm_fs_set(ptr, fs): [raised, p]
pcm_fs_set(p, fs) ==
    IF fs <= 0
    THEN [raised |-> TRUE, p |-> p]
    ELSE [raised |-> FALSE, p |-> [p EXCEPT !.fs = fs]]

\* what rb_waveform_data_ptr returns: ptr->s
rb_waveform_data_ptr(p) == p.s

PcmOp(p, name, arg, raised, ret) ==
    [op |-> name, arg |-> arg, raised |-> raised, ret |-> ret,
     length0 |-> p.length, s0 |-> p.s, data0 |-> p.data, fs0 |-> p.fs]

PcmAlive == pcm.made /\ ~pcm.aborted /\ ~pcm.destroyed

\* rb_pcm_new(len, fs): a zeroed struct PCM, pcm_resize, pcm_fs_set.  When
\* one of them raises no object is returned.
PcmConstructed(r, len, fs) ==
    IF r.raised \/ pcm_fs_set(r.p, fs).raised
    THEN [pcm EXCEPT !.last = PcmOp(pcm, "rb_pcm_new", len, TRUE, "none")]
    ELSE [pcm_fs_set(r.p, fs).p EXCEPT
            !.made = TRUE, !.last = PcmOp(pcm, "rb_pcm_new", len, FALSE, "none")]

rb_pcm_new ==
    /\ pc = "pcm"
    /\ ~pcm.made
    /\ \E len \in PcmLens, fs \in PcmRates :
          \E r \in pcm_resize(PcmNone, len) : pcm' = PcmConstructed(r, len, fs)
    /\ UNCHANGED <<pc, req, memo, out, calls, riff>>

\* pcm.length = len
rb_pcm_len_set ==
    /\ pc = "pcm"
    /\ PcmAlive
    /\ \E len \in PcmLens :
          \E r \in pcm_resize(pcm, len) :
              pcm' = [r.p EXCEPT !.last = PcmOp(pcm, "rb_pcm_len_set", len, r.raised, "none")]
    /\ UNCHANGED <<pc, req, memo, out, calls, riff>>

\* pcm.fs = fs
rb_pcm_fs_set ==
    /\ pc = "pcm"
    /\ PcmAlive
    /\ \E fs \in PcmRates :
          pcm' = [pcm_fs_set(pcm, fs).p EXCEPT
                    !.last = PcmOp(pcm, "rb_pcm_fs_set", fs, pcm_fs_set(pcm, fs).raised, "none")]
    /\ UNCHANGED <<pc, req, memo, out, calls, riff>>

\* pcm.map! {|s| ...}: every element is replaced by the block's value
rb_pcm_collect_bang ==
    /\ pc = "pcm"
    /\ PcmAlive
    /\ \E d \in [1..pcm.length -> SampleVals] :
          pcm' = [pcm EXCEPT !.data = d,
                    !.last = PcmOp(pcm, "rb_pcm_collect_bang", 0, FALSE, "none")]
    /\ UNCHANGED <<pc, req, memo, out, calls, riff>>

\* double *s = rb_waveform_data_ptr(pcm)
WaveformDataPtr ==
    /\ pc = "pcm"
    /\ PcmAlive
    /\ pcm' = [pcm EXCEPT !.last =
                 PcmOp(pcm, "rb_waveform_data_ptr", 0, FALSE, rb_waveform_data_ptr(pcm))]
    /\ UNCHANGED <<pc, req, memo, out, calls, riff>>

\* pcm_free(ptr), called when the object is collected:
\* if (ptr->s != NULL) xfree(ptr->s); xfree(ptr);
pcm_free ==
    /\ pc = "pcm"
    /\ PcmAlive
    /\ \E q \in XFreeSamples(pcm) :
          pcm' = [q EXCEPT !.destroyed = ~q.aborted,
                           !.last = PcmOp(pcm, "pcm_free", 0, FALSE, "none")]
    /\ UNCHANGED <<pc, req, memo, out, calls, riff>>

IdleRequest == RubyRequest("none", 0, 0, Zero)

PcmInit ==
    /\ pc = "pcm"
    /\ req = IdleRequest
    /\ memo = MemoFresh
    /\ out = NoOut
    /\ pcm = PcmNone
    /\ calls = NoCalls
    /\ riff = NoRiff

PcmNext ==
    \/ rb_pcm_new
    \/ rb_pcm_len_set
    \/ rb_pcm_fs_set
    \/ rb_pcm_collect_bang
    \/ WaveformDataPtr
    \/ pcm_free

PcmSpec == PcmInit /\ [][PcmNext]_vars

(***************************************************************************)
(* The element loops of rb_pcm_collect_bang (map!) and rb_pcm_initialize   *)
(* (PCM.new with a block), src/lib/pcm.c, followed step by step.  Both are *)
(*     for (volatile long i = 0; i < ptr->length; i++)                     *)
(* with rb_yield in the body and the store ptr->s[i] = NUM2DBL(...) after  *)
(* the yield; map! also reads ptr->s[i] before the yield.  The block is    *)
(* Ruby code of the caller: before it returns it may call length= on the   *)
(* same object any number of times.  The loop position is kept in calls:   *)
(* [op, i, phase, acc], acc being the element accesses made so far, each   *)
(* with the length and the storage of the buffer at that moment.           *)
(*                                                                         *)
(* A store outside the current storage, or into released storage, is       *)
(* undefined behaviour: it goes unnoticed or the process is aborted.       *)
(***************************************************************************)
IterOps == {"rb_pcm_collect_bang", "rb_pcm_initialize"}

NoIter == [op |-> "none", i |-> 0, phase |-> "idle", acc |-> << >>]

\* a buffer of len zeros as pcm_resize leaves it on a zeroed struct PCM
PcmFresh(len) ==
    [PcmNone EXCEPT !.made = TRUE, !.fs = FS_DEF, !.length = len,
                    !.s = IF len = 0 THEN "NULL" ELSE "live", !.data = Zeros(len)]

Access(kind, i, p) == [kind |-> kind, i |-> i, length |-> p.length, s |-> p.s]

InBounds(i, p) == p.s = "live" /\ 0 <= i /\ i < p.length

\* ptr->s[i] = x: the outcomes
StoreSample(p, i, x) ==
    IF InBounds(i, p)
    THEN {[p EXCEPT !.data[i + 1] = x]}
    ELSE {p, [p EXCEPT !.aborted = TRUE]}

IterInit ==
    /\ pc = "iter"
    /\ req = IdleRequest
    /\ memo = MemoFresh
    /\ out = NoOut
    /\ \E len \in 0..MaxPcmLen : pcm = PcmFresh(len)
    /\ calls = NoIter
    /\ riff = NoRiff

\* the call enters its loop: i = 0
IterEnter ==
    /\ pc = "iter"
    /\ calls.phase = "idle"
    /\ \E op \in IterOps : calls' = [NoIter EXCEPT !.op = op, !.phase = "test"]
    /\ UNCHANGED <<pc, req, memo, out, pcm, riff>>

\* i < ptr->length; map! then reads ptr->s[i] and yields it, initialize
\* yields i
IterTest ==
    /\ pc = "iter"
    /\ calls.phase = "test"
    /\ PcmAlive
    /\ calls' = IF calls.i < pcm.length
                THEN [calls EXCEPT
                        !.phase = "block",
                        !.acc = IF calls.op = "rb_pcm_collect_bang"
                                THEN Append(@, Access("read", calls.i, pcm))
                                ELSE @]
                ELSE [calls EXCEPT !.phase = "done"]
    /\ UNCHANGED <<pc, req, memo, out, pcm, riff>>

\* the block calls length= on the buffer it is iterating: pcm_resize
BlockResize ==
    /\ pc = "iter"
    /\ calls.phase = "block"
    /\ PcmAlive
    /\ \E n \in 0..MaxPcmLen : \E r \in pcm_resize(pcm, n) : pcm' = r.p
    /\ UNCHANGED <<pc, req, memo, out, calls, riff>>

\* the block returns x: ptr->s[i] = NUM2DBL(x); i++
BlockReturn ==
    /\ pc = "iter"
    /\ calls.phase = "block"
    /\ PcmAlive
    /\ \E x \in SampleVals : pcm' \in StoreSample(pcm, calls.i, x)
    /\ calls' = [calls EXCEPT !.phase = "test", !.i = @ + 1,
                              !.acc = Append(@, Access("write", calls.i, pcm))]
    /\ UNCHANGED <<pc, req, memo, out, riff>>

IterNext ==
    \/ IterEnter
    \/ IterTest
    \/ BlockResize
    \/ BlockReturn

IterSpec == IterInit /\ [][IterNext]_vars

(***************************************************************************)
(* Two generations kaiser(len, alpha) with different alpha, interleaved at *)
(* the granularity of one formula evaluation.  Both run                    *)
(* rb_wf_ary_new(wf_cb_kaiser_with_param, len, alpha); each has its own    *)
(* buffers, and both evaluate wf_kaiser_with_param_expr on the one static  *)
(* memo slot (variable memo).  calls.c[i] is call i: its arguments, its    *)
(* position (pc, n) and its engine state st; calls.order lists which call  *)
(* made each formula evaluation.                                           *)
(***************************************************************************)
\* largest length of the interleaved calls
MaxKaiserLen == 4

KaiserAlphas == {Fin(1, 2), Fin(3, 1), Fin(800, 1), PInf}

KaiserWfif(alpha, len) ==
    Wfif([p2 \in 0..len |-> Zero], TRUE, alpha, "WFIF_ITER_1D",
         "WFIF_KURT", "WFIF_KURT", "WFIF_RECT")

KaiserCall(alpha, len) ==
    [alpha |-> alpha, len |-> len, pc |-> "enter", n |-> 0,
     st |-> Allocated(len, MemoFresh), result |-> << >>]

KaiserInit ==
    /\ pc = "kaiser"
    /\ req = IdleRequest
    /\ out = NoOut
    /\ pcm = PcmNone
    /\ riff = NoRiff
    /\ memo \in MemoStates
    /\ \E a1 \in KaiserAlphas, a2 \in KaiserAlphas :
          \E n1 \in 0..MaxKaiserLen, n2 \in 0..MaxKaiserLen :
              /\ a1 # a2
              /\ calls = [c |-> <<KaiserCall(a1, n1), KaiserCall(a2, n2)>>,
                          order |-> << >>]

\* call i enters rb_wf_ary_new and wf_iter_cb: an override fills the buffer,
\* otherwise the OneDimensional rule starts
Entered(c) ==
    IF wf_iter_errhdl(KaiserWfif(c.alpha, c.len)) # "WFIF_NOCNTL"
    THEN [c EXCEPT !.pc = "filled",
            !.st = wf_iter_cb_sp(wf_iter_errhdl(KaiserWfif(c.alpha, c.len)),
                                 c.len, c.st)]
    ELSE [c EXCEPT !.pc = "loop", !.st = Log(c.st, "rule_1d", c.len, 0)]

KaiserEnter(i) ==
    /\ pc = "kaiser"
    /\ calls.c[i].pc = "enter"
    /\ calls' = [calls EXCEPT !.c[i] = Entered(@)]
    /\ UNCHANGED <<pc, req, memo, out, pcm, riff>>

\* one iteration of the loop of wf_iter_rule_1d in call c, on the memo slot m
LoopStep(c, m) ==
    IF c.len % 2 = 0
    THEN Rule1dEvenBody(c.n, c.len,
            IterFunc(KaiserWfif(c.alpha, c.len), 2 * c.n, c.len,
                     [c.st EXCEPT !.memo = m]))
    ELSE Rule1dOddBody(c.n, c.len,
            IterFunc(KaiserWfif(c.alpha, c.len), 2 * c.n + 1, c.len,
                     [c.st EXCEPT !.memo = m]))

KaiserEval(i) ==
    /\ pc = "kaiser"
    /\ calls.c[i].pc = "loop"
    /\ calls.c[i].n < calls.c[i].len \div 2
    /\ calls' = [calls EXCEPT
                   !.c[i] = [@ EXCEPT !.st = LoopStep(calls.c[i], memo), !.n = @ + 1],
                   !.order = Append(@, i)]
    /\ memo' = LoopStep(calls.c[i], memo).memo
    /\ UNCHANGED <<pc, req, out, pcm, riff>>

\* w[N/2] = 1. after the loop, then rb_wf_ary_new stores w into the array
Finished(c) ==
    IF c.pc = "loop" THEN Store(c.st, c.len \div 2, One) ELSE c.st

KaiserReturn(i) ==
    /\ pc = "kaiser"
    /\ \/ calls.c[i].pc = "filled"
       \/ calls.c[i].pc = "loop" /\ calls.c[i].n >= calls.c[i].len \div 2
    /\ calls' = [calls EXCEPT !.c[i] =
                   [@ EXCEPT !.pc = "done", !.st = Finished(calls.c[i]),
                      !.result = rb_wf_ary_new(Returned(Finished(calls.c[i]))).out.result]]
    /\ UNCHANGED <<pc, req, memo, out, pcm, riff>>

KaiserNext ==
    \/ \E i \in 1..2 : KaiserEnter(i)
    \/ \E i \in 1..2 : KaiserEval(i)
    \/ \E i \in 1..2 : KaiserReturn(i)

KaiserSpec == KaiserInit /\ [][KaiserNext]_vars

(***************************************************************************)
(* The RIFF/WAVE codec, src/ext/riff.c.  A file is its sequence of bytes.  *)
(* A uint32_t is kept as its four bytes, least significant first, so that  *)
(* the arithmetic of the header fields is the arithmetic modulo 2^32 of C; *)
(* a uint16_t is a number below 65536.                                     *)
(***************************************************************************)
U16Mod == 65536

\* the bytes of a number n < 2^31, least significant first
U16LE(n) == <<n % 256, (n \div 256) % 256>>

U32LE(n) ==
    <<n % 256, (n \div 256) % 256, (n \div 65536) % 256, (n \div 16777216) % 256>>

\* the number a uint32_t holds, where it is below 2^31
U32Nat(x) == x[1] + 256 * x[2] + 65536 * x[3] + 16777216 * x[4]

U32Small(x) == x[4] < 128

\* x * k for a uint32_t x and 0 <= k < 65536: [val, carry], val the product
\* modulo 2^32 and carry what was lost above bit 31
RECURSIVE MulU32Loop(_, _, _, _, _)
MulU32Loop(x, k, i, c, acc) ==
    IF i > 4 THEN [val |-> acc, carry |-> c]
    ELSE MulU32Loop(x, k, i + 1, (x[i] * k + c) \div 256,
                    Append(acc, (x[i] * k + c) % 256))

MulU32(x, k) == MulU32Loop(x, k, 1, 0, << >>)

\* x / d and x % d for a uint32_t x and 0 < d < 65536
RECURSIVE DivU32Loop(_, _, _, _, _)
DivU32Loop(x, d, i, r, acc) ==
    IF i < 1 THEN [quot |-> acc, rem |-> r]
    ELSE DivU32Loop(x, d, i - 1, (r * 256 + x[i]) % d,
                    <<(r * 256 + x[i]) \div d>> \o acc)

DivU32(x, d) == DivU32Loop(x, d, 4, 0, << >>).quot

ModU32(x, d) == DivU32Loop(x, d, 4, 0, << >>).rem

\* x + n modulo 2^32 for a uint32_t x and 0 <= n < 65536
RECURSIVE AddU32Loop(_, _, _, _)
AddU32Loop(x, n, i, acc) ==
    IF i > 4 THEN acc
    ELSE AddU32Loop(x, (x[i] + n) \div 256, i + 1, Append(acc, (x[i] + n) % 256))

AddU32(x, n) == AddU32Loop(x, n, 1, << >>)

dbyte2u16le(bytes) == bytes[1] + 256 * bytes[2]

qbyte2u32le(bytes) == <<bytes[1], bytes[2], bytes[3], bytes[4]>>

\* rb_str_cat_uintle(str, value, sz) for sz = 2 (a uint16_t) and sz = 4
CatU16(str, value) == str \o U16LE(value)

CatU32(str, value) == str \o value

Tag(a, b, c, d) == <<a, b, c, d>>

TagRIFF == Tag(82, 73, 70, 70)
TagWAVE == Tag(87, 65, 86, 69)
TagFmt == Tag(102, 109, 116, 32)
TagData == Tag(100, 97, 116, 97)

(***************************************************************************)
(* Samples.  A sample of a PCM buffer is a double; a decoded sample is     *)
(* num / 2^e, kept as the record [k |-> "dyadic", a |-> num, b |-> e].     *)
(***************************************************************************)
Dyadic(num, e) == [k |-> "dyadic", a |-> num, b |-> e, f |-> ""]

Pow2(e) == IF e = 0 THEN 1 ELSE 2 * 2 ^ (e - 1)

\* floor(a * 2^e / b) for 0 <= a < b and e <= 31, without leaving 31 bits
FloorScaled(a, b, e) ==
    IF e <= 30
    THEN a * (Pow2(e) \div b) + (a * (Pow2(e) % b)) \div b
    ELSE 2 * a * (Pow2(30) \div b) + (2 * a * (Pow2(30) % b)) \div b

\* a * 2^e / b is an integer
ExactScaled(a, b, e) ==
    IF e <= 30 THEN (a * (Pow2(e) % b)) % b = 0
    ELSE (2 * a * (Pow2(30) % b)) % b = 0

\* fclip(v, -2^e, 2^e - 1) for an integer v
ClipInt(v, e) ==
    IF v > (Pow2(e - 1) - 1) + Pow2(e - 1) THEN (Pow2(e - 1) - 1) + Pow2(e - 1)
    ELSE IF v < (-Pow2(e - 1)) - Pow2(e - 1) THEN (-Pow2(e - 1)) - Pow2(e - 1)
    ELSE v

\* (integer type)fclip(x * 2^e, -2^e, 2^e - 1) with wave_normalize's NaN -> 0:
\* the conversion truncates toward zero.  A decoded sample num / 2^e is
\* encoded at the depth it was decoded at, where x * 2^e is num.
Digitize(x, e) ==
    CASE x.k = "nan" -> 0
      [] x.k = "dyadic" -> ClipInt(x.a, e)
      [] x.k = "pinf" -> (Pow2(e - 1) - 1) + Pow2(e - 1)
      [] x.k = "ninf" -> (-Pow2(e - 1)) - Pow2(e - 1)
      [] x.a >= x.b -> (Pow2(e - 1) - 1) + Pow2(e - 1)
      [] -x.a >= x.b -> (-Pow2(e - 1)) - Pow2(e - 1)
      [] x.a >= 0 -> FloorScaled(x.a, x.b, e)
      [] OTHER -> -FloorScaled(-x.a, x.b, e)

\* (unsigned char)(fclip(x * 128, -128, 127) + 0x80): the sum is not negative,
\* the conversion is its floor
Digitize8(x) ==
    CASE x.k = "nan" -> 128
      [] x.k = "dyadic" -> 128 + ClipInt(x.a, 7)
      [] x.k = "pinf" -> 255
      [] x.k = "ninf" -> 0
      [] x.a >= x.b -> 255
      [] -x.a >= x.b -> 0
      [] x.a >= 0 -> 128 + FloorScaled(x.a, x.b, 7)
      [] ExactScaled(-x.a, x.b, 7) -> 128 - FloorScaled(-x.a, x.b, 7)
      [] OTHER -> 128 - FloorScaled(-x.a, x.b, 7) - 1

pcm_write_8bit(s) == <<Digitize8(s)>>

pcm_write_16bit(s) ==
    <<Digitize(s, 15) % 256, (Digitize(s, 15) \div 256) % 256>>

pcm_write_24bit(s) ==
    <<Digitize(s, 23) % 256, (Digitize(s, 23) \div 256) % 256,
      (Digitize(s, 23) \div 65536) % 256>>

pcm_write_32bit(s) ==
    <<Digitize(s, 31) % 256, (Digitize(s, 31) \div 256) % 256,
      (Digitize(s, 31) \div 65536) % 256, (Digitize(s, 31) \div 16777216) % 256>>

\* char data = buf[0] - 0x80: plain char is signed or unsigned with the build
pcm_read_8bit(buf, char_signed) ==
    Dyadic(IF char_signed THEN buf[1] - 128 ELSE (buf[1] - 128) % 256, 7)

pcm_read_16bit(buf) ==
    Dyadic(buf[1] + 256 * (IF buf[2] >= 128 THEN buf[2] - 256 ELSE buf[2]), 15)

pcm_read_24bit(buf) ==
    Dyadic(buf[1] + 256 * buf[2]
             + 65536 * (IF buf[3] >= 128 THEN buf[3] - 256 ELSE buf[3]), 23)

pcm_read_32bit(buf) ==
    Dyadic(buf[1] + 256 * buf[2] + 65536 * buf[3]
             + 16777216 * (IF buf[4] >= 128 THEN buf[4] - 256 ELSE buf[4]), 31)

\* func(buf, s) of the writer and of the reader for the bit depth
EncodeSample(bits, s) ==
    CASE bits = 8 -> pcm_write_8bit(s)
      [] bits = 16 -> pcm_write_16bit(s)
      [] bits = 24 -> pcm_write_24bit(s)
      [] OTHER -> pcm_write_32bit(s)

DecodeSample(bits, buf, char_signed) ==
    CASE bits = 8 -> pcm_read_8bit(buf, char_signed)
      [] bits = 16 -> pcm_read_16bit(buf)
      [] bits = 24 -> pcm_read_24bit(buf)
      [] OTHER -> pcm_read_32bit(buf)

(***************************************************************************)
(* wave_write_linear_pcm(pcm_ary, bits, file_name).  A PCM object of the   *)
(* array is [fs, data]; the result is [raised, error, msg, file].          *)
(***************************************************************************)
BUFFER_SIZE == 4096

UINT16_MAX == 65535

WriteRaise(error, msg, file) ==
    [raised |-> TRUE, error |-> error, msg |-> msg, file |-> file]

\* the loop over the channels: samples_per_sec and length are taken from the
\* first channel that has them non-zero and compared with the later ones
RECURSIVE WriteChannelLoop(_, _, _, _)
WriteChannelLoop(pcm_ary, i, samples_per_sec, length) ==
    IF i > Len(pcm_ary)
    THEN [raised |-> FALSE, samples_per_sec |-> samples_per_sec, length |-> length]
    ELSE IF samples_per_sec # U32LE(0) /\ samples_per_sec # U32LE(pcm_ary[i].fs)
    THEN [raised |-> TRUE, samples_per_sec |-> samples_per_sec, length |-> length]
    ELSE IF length # 0 /\ length # Len(pcm_ary[i].data)
    THEN [raised |-> TRUE, samples_per_sec |-> samples_per_sec, length |-> length]
    ELSE WriteChannelLoop(pcm_ary, i + 1, U32LE(pcm_ary[i].fs), Len(pcm_ary[i].data))

\* one pass of the inner loop: the samples at idx of every channel
RECURSIVE WriteFrame(_, _, _, _)
WriteFrame(pcm_ary, bits, idx, i) ==
    IF i > Len(pcm_ary) THEN << >>
    ELSE EncodeSample(bits, pcm_ary[i].data[idx + 1])
           \o WriteFrame(pcm_ary, bits, idx, i + 1)

RECURSIVE WriteFrames(_, _, _, _)
WriteFrames(pcm_ary, bits, idx, n) ==
    IF n = 0 THEN << >>
    ELSE WriteFrame(pcm_ary, bits, idx, 1) \o WriteFrames(pcm_ary, bits, idx + 1, n - 1)

\* the sample arrays hold the frames idx .. idx + n - 1
FramesHeld(pcm_ary, idx, n) ==
    \A i \in 1..Len(pcm_ary) : idx + n <= Len(pcm_ary[i].data)

\* the loop over the buffers of the data chunk: a buffer that is empty or not
\* a whole number of blocks is overrun by the inner loop, and so is a sample
\* array shorter than the frames written
RECURSIVE WriteDataLoop(_, _, _, _, _, _, _, _)
WriteDataLoop(pcm_ary, bits, block_size, data_chunk_size, data_offset, buffer_size, idx, file) ==
    IF data_offset >= data_chunk_size
    THEN [raised |-> FALSE, error |-> "none", msg |-> "", file |-> file]
    ELSE IF data_offset + buffer_size > data_chunk_size
    THEN WriteDataLoop(pcm_ary, bits, block_size, data_chunk_size, data_offset,
                       data_chunk_size - data_offset, idx, file)
    ELSE IF buffer_size = 0 \/ buffer_size % block_size # 0
              \/ ~FramesHeld(pcm_ary, idx, buffer_size \div block_size)
    THEN WriteRaise("undefined", "buffer overrun", file)
    ELSE WriteDataLoop(pcm_ary, bits, block_size, data_chunk_size,
                       data_offset + buffer_size, buffer_size,
                       idx + buffer_size \div block_size,
                       file \o WriteFrames(pcm_ary, bits, idx,
                                           buffer_size \div block_size))

\* the three header strings, in the order they are written
WriteHeader(channels, samples_per_sec, bytes_per_sec, block_size, bits_per_sample, riff_chunk_size, data_size_field) ==
    CatU32(TagRIFF, riff_chunk_size) \o TagWAVE
      \o CatU16(CatU16(CatU32(CatU32(CatU16(CatU16(CatU32(TagFmt, U32LE(16)), 1),
                  channels), samples_per_sec), bytes_per_sec), block_size),
                  bits_per_sample)
      \o CatU32(TagData, data_size_field)

BytesPerSec(samples_per_sec, bits_per_sample, channels) ==
    MulU32(DivU32(MulU32(samples_per_sec, bits_per_sample).val, 8), channels).val

BlockSize(bits_per_sample, channels) ==
    ((bits_per_sample \div 8) * channels) % U16Mod

DataChunkSize(length, bits_per_sample, channels) ==
    ((length * bits_per_sample) \div 8) * channels

RiffChunkSize(data_chunk_size) ==
    IF AddU32(data_chunk_size, 36)[1] % 2 = 1
    THEN AddU32(AddU32(data_chunk_size, 36), 1)
    ELSE AddU32(data_chunk_size, 36)

\* the size written after the "data" tag
DataSizeField(data_chunk_size) ==
    IF data_chunk_size[1] % 2 = 1 THEN AddU32(data_chunk_size, 1)
    ELSE data_chunk_size

\* the byte appended after an odd data chunk
WritePad(w, data_chunk_size) ==
    IF ~w.raised /\ data_chunk_size % 2 = 1
    THEN [w EXCEPT !.file = w.file \o <<0>>]
    ELSE w

\* the part after the loop over the channels
WriteFile(pcm_ary, bits, samples_per_sec, length) ==
    IF bits \notin {8, 16, 24, 32}
    THEN WriteRaise("SemanticError", "unrecognized (or unsupported) bits per sample", << >>)
    ELSE IF BlockSize(bits, Len(pcm_ary)) = 0
    THEN WriteRaise("undefined", "division by zero",
           WriteHeader(Len(pcm_ary), samples_per_sec,
                       BytesPerSec(samples_per_sec, bits, Len(pcm_ary)),
                       BlockSize(bits, Len(pcm_ary)), bits,
                       RiffChunkSize(U32LE(DataChunkSize(length, bits, Len(pcm_ary)))),
                       DataSizeField(U32LE(DataChunkSize(length, bits, Len(pcm_ary))))))
    ELSE WritePad(
           WriteDataLoop(pcm_ary, bits, BlockSize(bits, Len(pcm_ary)),
             DataChunkSize(length, bits, Len(pcm_ary)), 0,
             (BUFFER_SIZE \div BlockSize(bits, Len(pcm_ary)))
                * BlockSize(bits, Len(pcm_ary)),
             0,
             WriteHeader(Len(pcm_ary), samples_per_sec,
                         BytesPerSec(samples_per_sec, bits, Len(pcm_ary)),
                         BlockSize(bits, Len(pcm_ary)), bits,
                         RiffChunkSize(U32LE(DataChunkSize(length, bits, Len(pcm_ary)))),
                         DataSizeField(U32LE(DataChunkSize(length, bits, Len(pcm_ary)))))),
           DataChunkSize(length, bits, Len(pcm_ary)))

WriteAfterChannels(pcm_ary, bits, ch) ==
    IF ch.raised
    THEN WriteRaise("RuntimeError", "different sampling frequency or length", << >>)
    ELSE WriteFile(pcm_ary, bits, ch.samples_per_sec, ch.length)

wave_write_linear_pcm(pcm_ary, bits) ==
    IF Len(pcm_ary) > UINT16_MAX
    THEN WriteRaise("RangeError", "too many PCM classes", << >>)
    ELSE WriteAfterChannels(pcm_ary, bits, WriteChannelLoop(pcm_ary, 1, U32LE(0), 0))

(***************************************************************************)
(* wave_read_linear_pcm(file_name).  The header is read field by field at  *)
(* fixed offsets; readpartial raises EOFError where nothing is left.  The  *)
(* result is [raised, error, msg, ev, pcm_ary], ev the steps carried out.  *)
(***************************************************************************)
\* the n bytes a read at offset off delivers (bytes past the end read as 0
\* here; the read itself fails before they are used)
Field(file, off, n) ==
    [i \in 1..n |-> IF off + i <= Len(file) THEN file[off + i] ELSE 0]

HeaderFields(file) ==
    [riff_chunk_ID |-> Field(file, 0, 4),
     riff_chunk_size |-> qbyte2u32le(Field(file, 4, 4)),
     file_format_type |-> Field(file, 8, 4),
     fmt_chunk_ID |-> Field(file, 12, 4),
     fmt_chunk_size |-> qbyte2u32le(Field(file, 16, 4)),
     wave_format_type |-> dbyte2u16le(Field(file, 20, 2)),
     channels |-> dbyte2u16le(Field(file, 22, 2)),
     samples_per_sec |-> qbyte2u32le(Field(file, 24, 4)),
     bytes_per_sec |-> qbyte2u32le(Field(file, 28, 4)),
     block_size |-> dbyte2u16le(Field(file, 32, 2)),
     bits_per_sample |-> dbyte2u16le(Field(file, 34, 2)),
     data_chunk_ID |-> Field(file, 36, 4),
     data_chunk_size |-> qbyte2u32le(Field(file, 40, 4))]

HeaderLen == 44

\* a step that reads at offset at and then tests ok
ReadStep(file, at, ok, msg) ==
    [name |-> "check", eof |-> at >= Len(file), ok |-> ok, msg |-> msg]

\* a step that tests ok on what was read before
TestStep(ok, msg) == [name |-> "check", eof |-> FALSE, ok |-> ok, msg |-> msg]

\* the creation of the PCM buffers
AllocStep == [name |-> "rb_pcm_new", eof |-> FALSE, ok |-> TRUE, msg |-> ""]

\* the reads and tests of the header, in the order of the code; a step after
\* a failed one is not carried out
HeaderChecks(file, h) ==
    <<ReadStep(file, 0, h.riff_chunk_ID = TagRIFF, "unknown RIFF chunk ID"),
      ReadStep(file, 4, TRUE, ""),
      ReadStep(file, 8, h.file_format_type = TagWAVE, "unknown file format type"),
      ReadStep(file, 12, h.fmt_chunk_ID = TagFmt, "no format chunk"),
      ReadStep(file, 16, TRUE, ""),
      ReadStep(file, 20, h.wave_format_type = 1, "not a linear PCM"),
      ReadStep(file, 22, h.channels # 0, "'channels' must be non-zero"),
      ReadStep(file, 24, h.samples_per_sec # U32LE(0),
               "'samples_per_sec' must be non-zero"),
      ReadStep(file, 28, h.bytes_per_sec # U32LE(0),
               "'bytes_per_sec' must be non-zero"),
      ReadStep(file, 32, h.block_size # 0, "'block_size' must be non-zero"),
      ReadStep(file, 34, h.bits_per_sample # 0,
               "'bits_per_sample' must be non-zero"),
      TestStep((h.bits_per_sample \div 8) * h.channels = h.block_size,
               "'block_size' mismatch"),
      TestStep(MulU32(h.samples_per_sec, h.block_size).val = h.bytes_per_sec,
               "'bytes_per_sec' mismatch"),
      ReadStep(file, 36, h.data_chunk_ID = TagData, "no data chunk"),
      ReadStep(file, 40, TRUE, ""),
      TestStep(h.block_size # 0 /\ ModU32(h.data_chunk_size, h.block_size) = 0,
               "'data_chunk_size' is not a multiple of 'block_size'"),
      TestStep(h.bits_per_sample \in {8, 16, 24, 32},
               "unrecognized (or unsupported) bits per sample")>>

\* the PCM buffers created before the header is looked at
HeaderSteps_alloc_first(file, h) == <<AllocStep>> \o HeaderChecks(file, h)

\* the steps of the reader up to the creation of the buffers
HeaderSteps(file, h) == HeaderChecks(file, h) \o <<AllocStep>>

Failed(step) == step.eof \/ ~step.ok

\* the first step that fails, 0 when none does
FirstFailure(steps) ==
    IF \E i \in 1..Len(steps) : Failed(steps[i])
    THEN CHOOSE i \in 1..Len(steps) :
           Failed(steps[i]) /\ \A j \in 1..(i - 1) : ~Failed(steps[j])
    ELSE 0

StepNames(steps, n) == [i \in 1..n |-> steps[i].name]

ReadRaise(error, msg, ev) ==
    [raised |-> TRUE, error |-> error, msg |-> msg, ev |-> ev, pcm_ary |-> << >>]

\* func(buf_ptr + i * block_size / channels, s_ptr + idx) for channel i
\* (counted from 0) of the frame at base
DecodeAt(h, buf, base, i, char_signed) ==
    DecodeSample(h.bits_per_sample,
                 Field(buf, base + (i * h.block_size) \div h.channels,
                       h.bits_per_sample \div 8),
                 char_signed)

\* the samples of channel i in the n frames of a buffer
DecodeChannel(h, buf, n, i, char_signed) ==
    [k \in 1..n |-> DecodeAt(h, buf, (k - 1) * h.block_size, i, char_signed)]

\* the bytes readpartial delivers at data_offset of the data chunk
ReadBuffer(file, data_offset, buffer_size) ==
    Field(file, HeaderLen + data_offset,
          IF HeaderLen + data_offset + buffer_size <= Len(file) THEN buffer_size
          ELSE Len(file) - (HeaderLen + data_offset))

\* the loop over the buffers of the data chunk; mat[i] is what was decoded
\* of channel i.  A buffer that is not a whole number of blocks is overrun
\* by the inner loop.
RECURSIVE ReadDataLoop(_, _, _, _, _, _, _, _)
ReadDataLoop(file, h, data_chunk_size, data_offset, buffer_size, mat, ev, char_signed) ==
    IF data_offset >= data_chunk_size
    THEN [raised |-> FALSE, error |-> "none", msg |-> "", ev |-> ev,
          pcm_ary |-> [i \in 1..h.channels |->
                         [fs |-> U32Nat(h.samples_per_sec),
                          data |-> [k \in 1..(data_chunk_size \div h.block_size) |->
                                      IF k <= Len(mat[i]) THEN mat[i][k] ELSE Zero]]]]
    ELSE IF data_offset + buffer_size > data_chunk_size
    THEN ReadDataLoop(file, h, data_chunk_size, data_offset,
                      data_chunk_size - data_offset, mat, ev, char_signed)
    ELSE IF buffer_size > 0 /\ HeaderLen + data_offset >= Len(file)
    THEN ReadRaise("EOFError", "end of file reached", ev)
    ELSE IF Len(ReadBuffer(file, data_offset, buffer_size)) = 0
              \/ Len(ReadBuffer(file, data_offset, buffer_size)) % h.block_size # 0
    THEN ReadRaise("undefined", "buffer overrun", ev)
    ELSE ReadDataLoop(file, h, data_chunk_size, data_offset + buffer_size,
           buffer_size,
           [i \in 1..h.channels |->
              mat[i] \o DecodeChannel(h, ReadBuffer(file, data_offset, buffer_size),
                                      Len(ReadBuffer(file, data_offset, buffer_size))
                                        \div h.block_size,
                                      i - 1, char_signed)],
           ev \o [k \in 1..(Len(ReadBuffer(file, data_offset, buffer_size))
                               \div h.block_size) |-> "decode"],
           char_signed)

\* the header passed every step: decode the data chunk
ReadData(file, h, ev, char_signed) ==
    ReadDataLoop(file, h, U32Nat(h.data_chunk_size), 0,
                 (BUFFER_SIZE \div h.block_size) * h.block_size,
                 [i \in 1..h.channels |-> << >>], ev, char_signed)

ReadFrom(file, h, steps, failure, char_signed) ==
    IF failure = 0 THEN ReadData(file, h, StepNames(steps, Len(steps)), char_signed)
    ELSE ReadRaise(IF steps[failure].eof THEN "EOFError" ELSE "SemanticError",
                   IF steps[failure].eof THEN "end of file reached"
                   ELSE steps[failure].msg,
                   StepNames(steps, failure))

ReadSteps(file, steps, char_signed) ==
    ReadFrom(file, HeaderFields(file), steps, FirstFailure(steps), char_signed)

wave_read_linear_pcm(file, char_signed) ==
    ReadSteps(file, HeaderSteps(file, HeaderFields(file)), char_signed)

(***************************************************************************)
(* The specification of the codec: one call of write_linear_pcm followed   *)
(* by read_linear_pcm of the file it wrote, or one call of read_linear_pcm *)
(* of a file made by hand.                                                 *)
(***************************************************************************)
MaxChannels == 2

MaxFrames == 2

BitDepths == {8, 12, 16, 24, 32}

RiffRates == {48000, 536870912}

SampleSeq == <<Zero, One, Fin(-1, 1), Fin(1, 3), Fin(-1, 3), Fin(3, 2), NaN>>

\* sample i of channel c in the k-th choice of samples
SamplePattern(k, c, i) == SampleSeq[((k + 3 * c + i) % Len(SampleSeq)) + 1]

PcmOf(fs, frames, k, c) ==
    [fs |-> fs, data |-> [i \in 1..frames |-> SamplePattern(k, c, i)]]

\* the arrays of PCM objects written: channels of one rate and one length,
\* or with a last channel that is longer, shorter or of another rate
PcmArrays ==
    {[c \in 1..n |->
        PcmOf(IF uneven = "rate" /\ c = n /\ n > 1 THEN 44100 ELSE fs,
              IF uneven = "length" /\ c = n /\ n > 1 THEN frames + 1
              ELSE IF uneven = "short" /\ c = n /\ n > 1 /\ frames > 0
              THEN frames - 1 ELSE frames,
              k, c)] :
       n \in 1..MaxChannels, frames \in 0..MaxFrames, k \in 1..Len(SampleSeq),
       fs \in RiffRates, uneven \in {"no", "length", "short", "rate"}}

\* a channel count whose frames of 32-bit samples do not fit BUFFER_SIZE
WideChannels == 1025

WriteRequests ==
    {[NoRiff EXCEPT !.stage = "write", !.pcm_ary = a, !.bits = b,
                    !.char_signed = cs] :
       a \in PcmArrays, b \in BitDepths, cs \in BOOLEAN}

\* the header of a file made by hand and n bytes of data
DataBytes(n) == [i \in 1..n |-> (37 * i + 91) % 256]

HandMade(channels, samples_per_sec, bytes_per_sec, block_size, bits, n) ==
    WriteHeader(channels, samples_per_sec, bytes_per_sec, block_size, bits,
                RiffChunkSize(U32LE(n)), U32LE(n)) \o DataBytes(n)

\* a file with one byte replaced or cut short
Damages == {"none", "RIFF", "WAVE", "fmt", "data", "format",
            "cut at 0", "cut at 12", "cut at 44", "last byte cut"}

Damaged(file, damage) ==
    CASE damage = "RIFF" -> [file EXCEPT ![1] = 0]
      [] damage = "WAVE" -> [file EXCEPT ![9] = 0]
      [] damage = "fmt" -> [file EXCEPT ![13] = 0]
      [] damage = "data" -> [file EXCEPT ![37] = 0]
      [] damage = "format" -> [file EXCEPT ![21] = 3]
      [] damage = "cut at 0" -> << >>
      [] damage = "cut at 12" -> SubSeq(file, 1, 12)
      [] damage = "cut at 44" -> SubSeq(file, 1, HeaderLen)
      [] damage = "last byte cut" -> SubSeq(file, 1, Len(file) - 1)
      [] OTHER -> file

HandRates == {U32LE(0), U32LE(8000), <<1, 0, 0, 64>>}

HandBits == {0, 8, 12, 16, 24, 32}

HandMadeFiles ==
    {Damaged(HandMade(c, r, AddU32(MulU32(r, (b \div 8) * c + db).val, dr),
                      (b \div 8) * c + db, b,
                      k * ((b \div 8) * c + db) + dn), damage) :
       c \in 0..MaxChannels, r \in HandRates, b \in HandBits,
       db \in {0, 1}, dr \in {0, 1}, k \in 0..MaxFrames, dn \in {0, 1},
       damage \in Damages}

\* files of WideChannels channels of 32-bit samples, k frames
WideFiles ==
    {HandMade(WideChannels, U32LE(8000), MulU32(U32LE(8000), 4 * WideChannels).val,
              4 * WideChannels, 32, k * 4 * WideChannels) : k \in 0..1}

ReadRequests ==
    {[NoRiff EXCEPT !.stage = "file", !.file = f, !.char_signed = cs] :
       f \in HandMadeFiles, cs \in BOOLEAN}
    \cup {[NoRiff EXCEPT !.stage = "file", !.file = f] : f \in WideFiles}

RiffInit ==
    /\ pc = "riff"
    /\ req = IdleRequest
    /\ memo = MemoFresh
    /\ out = NoOut
    /\ pcm = PcmNone
    /\ calls = NoCalls
    /\ riff \in WriteRequests \cup ReadRequests

\* the state after the writer returned w
Wrote(r, w) ==
    [r EXCEPT !.file = w.file,
              !.wrote = [raised |-> w.raised, error |-> w.error, msg |-> w.msg],
              !.stage = IF w.raised THEN "done" ELSE "written"]

\* Wave::RIFF.write_linear_pcm(fname, pcm_ary, bits)
write_linear_pcm ==
    /\ pc = "riff"
    /\ riff.stage = "write"
    /\ riff' = Wrote(riff, wave_write_linear_pcm(riff.pcm_ary, riff.bits))
    /\ UNCHANGED <<pc, req, memo, out, pcm, calls>>

\* Wave::RIFF.read_linear_pcm(fname)
read_linear_pcm ==
    /\ pc = "riff"
    /\ riff.stage \in {"written", "file"}
    /\ riff' = [riff EXCEPT !.read = wave_read_linear_pcm(riff.file, riff.char_signed),
                            !.stage = "done"]
    /\ UNCHANGED <<pc, req, memo, out, pcm, calls>>

RiffNext == write_linear_pcm \/ read_linear_pcm

RiffSpec == RiffInit /\ [][RiffNext]_vars

(***************************************************************************)
(* The sample codecs on their own: a sample code of a bit depth (the bytes *)
(* of one sample) is decoded by pcm_read_<B>bit and the double is encoded  *)
(* again by pcm_write_<B>bit.  The state is kept in riff as                *)
(* [stage, bits, char_signed, code, sample, bytes].                        *)
(***************************************************************************)
CodeBytes == {0, 1, 127, 128, 129, 255}

SampleCodes(bits) == [1..(bits \div 8) -> CodeBytes]

CodecInit ==
    /\ pc = "codec"
    /\ req = IdleRequest
    /\ memo = MemoFresh
    /\ out = NoOut
    /\ pcm = PcmNone
    /\ calls = NoCalls
    /\ \E bits \in {8, 16, 24, 32}, cs \in BOOLEAN :
          \E code \in SampleCodes(bits) :
              riff = [stage |-> "code", bits |-> bits, char_signed |-> cs,
                      code |-> code, sample |-> Zero, bytes |-> << >>]

\* func(buf_ptr, s_ptr) of the reader
DecodeCode ==
    /\ pc = "codec"
    /\ riff.stage = "code"
    /\ riff' = [riff EXCEPT
                  !.sample = DecodeSample(riff.bits, riff.code, riff.char_signed),
                  !.stage = "decoded"]
    /\ UNCHANGED <<pc, req, memo, out, pcm, calls>>

\* func(buf_ptr, s_ptr) of the writer
EncodeDecoded ==
    /\ pc = "codec"
    /\ riff.stage = "decoded"
    /\ riff' = [riff EXCEPT !.bytes = EncodeSample(riff.bits, riff.sample),
                            !.stage = "encoded"]
    /\ UNCHANGED <<pc, req, memo, out, pcm, calls>>

CodecNext == DecodeCode \/ EncodeDecoded

CodecSpec == CodecInit /\ [][CodecNext]_vars

(***************************************************************************)
(* Vocabulary of the properties.                                           *)
(***************************************************************************)
Done == pc = "done"

\* positions in the event log of the call whose event is one of es
EvAt(es) == {i \in DOMAIN out.ev : out.ev[i].e \in es}

FillEvents == {"fill_rect", "fill_kurt"}
RuleEvents == {"rule_1d", "rule_mdct"}
AllocEvents == {"alloc_ary", "alloc_w"}

\* the entry points whose callback declares the OneDimensional rule
OneDimApis == OneArgApis \cup {"wf_hamming", "wf_hann", "wf_gaussian", "wf_kaiser"}

\* the finished call produced a window under the OneDimensional rule (by the
\* rule itself or by the fill substituted for it)
OneDimWindow ==
    /\ Done
    /\ out.returned
    /\ \/ req.api \in OneDimApis
       \/ req.api = "wf_iter_cb" /\ req.iter_rule = "WFIF_ITER_1D"

\* index (from 1) in the returned array of the element w[N/2]
Center == req.len \div 2 + 1

Rectangular(N) == [i \in 1..N |-> One]

Kurtonic(N) == [i \in 1..N |-> IF i = N \div 2 + 1 THEN One ELSE Zero]

\* the value is a number of the interval [0, 1]
InUnit(v) == v.k \in {"fin", "sqrt"} /\ 0 <= v.a /\ v.a <= v.b

(***************************************************************************)
(* C1.  For every call of wf_iter_cb exactly one of {special-value fill,   *)
(* iteration rule} runs.  The parameter is tested for NaN, then infinite,  *)
(* then exactly zero; the first test that matches and whose policy is not  *)
(* NoOverride selects the fill (rectangular or kurtonic), and then the     *)
(* formula is not evaluated; if none does, the declared rule runs and no   *)
(* fill runs.                                                              *)
(***************************************************************************)
C1_Tests ==
    <<[hit |-> req.param.k = "nan", policy |-> req.hnan],
      [hit |-> req.param.k \in {"pinf", "ninf"}, policy |-> req.hinf],
      [hit |-> req.param = Zero, policy |-> req.hzero]>>

C1_Selecting == {i \in 1..3 : C1_Tests[i].hit /\ C1_Tests[i].policy # "WFIF_NOCNTL"}

C1_Policy ==
    IF C1_Selecting = {} THEN "WFIF_NOCNTL"
    ELSE C1_Tests[CHOOSE i \in C1_Selecting : \A j \in C1_Selecting : i <= j].policy

C1_ExactlyOneOfFillOrRule ==
    /\ (Done /\ ~out.raised) => Cardinality(EvAt(FillEvents \cup RuleEvents)) = 1
    /\ (Done /\ req.api = "wf_iter_cb") =>
          CASE C1_Policy = "WFIF_RECT" ->
                  EvAt({"fill_rect"}) # {} /\ EvAt({"formula"}) = {}
            [] C1_Policy = "WFIF_KURT" ->
                  EvAt({"fill_kurt"}) # {} /\ EvAt({"formula"}) = {}
            [] OTHER ->
                  EvAt({IF req.iter_rule = "WFIF_ITER_1D"
                        THEN "rule_1d" ELSE "rule_mdct"}) # {}

\* an infinite parameter with different policies for NaN and infinite: the
\* policy of the infinite test filled the buffer
C1_Witness ==
    /\ Done
    /\ req.api = "wf_iter_cb"
    /\ req.param = NInf
    /\ req.hnan = "WFIF_RECT"
    /\ req.hinf = "WFIF_KURT"
    /\ req.len = 3
    /\ out.result = Kurtonic(3)

(***************************************************************************)
(* C2.  Every window generated with the OneDimensional rule (a rectangular *)
(* or kurtonic fill included), of length N >= 1, has result[N/2] = 1.0     *)
(* exactly, whatever the formula returns.                                  *)
(***************************************************************************)
C2_UnityCenter ==
    (OneDimWindow /\ req.len >= 1) => out.result[Center] = One

\* hann(4): the formula's values are kept at the other indices
C2_Witness ==
    /\ OneDimWindow
    /\ req.api = "wf_hann"
    /\ req.argc = 1
    /\ req.len = 4
    /\ out.result[Center] = One
    /\ out.result[2] = Sym("hann", 2, 4)

(***************************************************************************)
(* C3, as claimed.  Every window generated with the OneDimensional rule,   *)
(* of even or odd length N >= 1, is bilaterally symmetric:                 *)
(* result[i] = result[N-1-i] for all i in 0..N-1.                          *)
(***************************************************************************)
C3_Claimed ==
    (OneDimWindow /\ req.len >= 1) =>
        \A i \in 0..(req.len - 1) :
            DEq(out.result[i + 1], out.result[req.len - 1 - i + 1])

(***************************************************************************)
(* C3, amended.  For odd N the window is symmetric about its centre,       *)
(* result[i] = result[N-1-i] for all i in 0..N-1; for even N the mirror is *)
(* i -> N-i: result[i] = result[N-i] for all i in 1..N-1, and index 0 has  *)
(* no mirror.                                                              *)
(***************************************************************************)
C3_Symmetry ==
    (OneDimWindow /\ req.len >= 1) =>
        IF req.len % 2 = 1
        THEN \A i \in 0..(req.len - 1) :
                DEq(out.result[i + 1], out.result[req.len - 1 - i + 1])
        ELSE \A i \in 1..(req.len - 1) :
                DEq(out.result[i + 1], out.result[req.len - i + 1])

\* bartlett(6) = [0, 1/3, 2/3, 1, 2/3, 1/3]
C3_Witness ==
    /\ OneDimWindow
    /\ req.api = "wf_bartlett"
    /\ req.len = 6
    /\ out.result = <<Zero, Fin(1, 3), Fin(2, 3), One, Fin(2, 3), Fin(1, 3)>>

(***************************************************************************)
(* C4.  For every N >= 1, gaussian(N, 0) and gaussian(N, NaN) return the   *)
(* kurtonic pattern, 1.0 at index N/2 and 0.0 at every other index, and    *)
(* the Gaussian formula is never evaluated.                                *)
(***************************************************************************)
C4_GaussianDegenerate ==
    (Done /\ req.api = "wf_gaussian" /\ req.argc = 2
          /\ req.param \in {Zero, NaN} /\ req.len >= 1) =>
        /\ out.returned
        /\ out.result = Kurtonic(req.len)
        /\ EvAt({"formula"}) = {}

C4_Witness ==
    /\ Done
    /\ req.api = "wf_gaussian"
    /\ req.argc = 2
    /\ req.param = NaN
    /\ req.len = 4
    /\ out.result = <<Zero, Zero, One, Zero>>

(***************************************************************************)
(* C5.  hamming(len, alpha) and hann(len, alpha) raise the domain error    *)
(* and return no array for every alpha that does not satisfy               *)
(* 0.5 <= alpha <= 1 (0, negative values, values above 1, NaN and the      *)
(* infinities included), and raise no error for alpha inside [0.5, 1].     *)
(***************************************************************************)
C5_InDomain(alpha) ==
    alpha.k = "fin" /\ alpha.b <= 2 * alpha.a /\ alpha.a <= alpha.b

C5_DomainError ==
    (Done /\ req.api \in {"wf_hamming", "wf_hann"} /\ req.argc = 2) =>
        IF C5_InDomain(req.param)
        THEN ~out.raised /\ out.returned /\ Len(out.result) = req.len
        ELSE out.raised /\ ~out.returned /\ out.result = << >>

C5_Witness ==
    /\ Done
    /\ req.api = "wf_hann"
    /\ req.argc = 2
    /\ req.param = NaN
    /\ out.raised
    /\ ~out.returned

(***************************************************************************)
(* C6, as claimed.  When the shape parameter of generalized Hamming/Hann   *)
(* is out of its domain the request is rejected before any allocation: at  *)
(* the moment the domain error is raised, neither the result array nor the *)
(* scratch buffer has been allocated by that call.                         *)
(***************************************************************************)
C6_RejectedBeforeAllocation ==
    (Done /\ out.raised) =>
        \A r \in EvAt({"raise"}) : \A a \in EvAt(AllocEvents) : r < a

(***************************************************************************)
(* C7.  For every N >= 1, hamming(N, 1) and hann(N, 1) are elementwise     *)
(* equal to rectangular(N): every element is exactly 1.0.                  *)
(***************************************************************************)
C7_AlphaOneIsRectangular ==
    (Done /\ req.api \in {"wf_hamming", "wf_hann"} /\ req.argc = 2
          /\ req.param = One /\ req.len >= 1) =>
        /\ out.returned
        /\ out.result = Rectangular(req.len)
        /\ out.result =
              rb_wf_ary_new(wf_cb_rectangular(Zero, req.len, Allocated(req.len, MemoFresh))).out.result

C7_Witness ==
    /\ Done
    /\ req.api = "wf_hamming"
    /\ req.argc = 2
    /\ req.param = One
    /\ req.len = 5
    /\ EvAt({"formula"}) # {}
    /\ out.result = <<One, One, One, One, One>>

(***************************************************************************)
(* C8, as claimed.  For N = 0 and every window (OneDimensional and         *)
(* ModifiedDCT rule, with or without an override) the engine returns an    *)
(* empty array and the formula is never invoked.                           *)
(***************************************************************************)
C8_ZeroLengthNeverEvaluates ==
    (Done /\ req.len = 0 /\ ~out.raised) =>
        /\ out.result = << >>
        /\ EvAt({"formula"}) = {}

(***************************************************************************)
(* C9, as claimed.  After the ModifiedDCT rule finishes (no override       *)
(* applied), w[N/2] = 1.0 exactly for every length N >= 1, on the even-N   *)
(* branch as well as on the odd-N branch.                                  *)
(***************************************************************************)
MdctWindow == Done /\ out.returned /\ EvAt({"rule_mdct"}) # {}

C9_Claimed ==
    (MdctWindow /\ req.len >= 1) => out.result[Center] = One

(***************************************************************************)
(* C9, amended.  After the ModifiedDCT rule finishes (no override applied) *)
(* w[N/2] = 1.0 exactly for every odd N >= 1, where the odd branch forces  *)
(* it; on the even branch nothing is forced and w[N/2] is the mirror copy  *)
(* of w[N/2 - 1].                                                          *)
(***************************************************************************)
C9_MdctCenter ==
    (MdctWindow /\ req.len >= 1) =>
        IF req.len % 2 = 1
        THEN out.result[Center] = One
        ELSE out.result[Center] = out.result[Center - 1]

\* kbd(4, 3): the two middle elements are equal and below 1
C9_Witness ==
    /\ MdctWindow
    /\ req.api = "wf_kbd"
    /\ req.param = Fin(3, 1)
    /\ req.len = 4
    /\ out.result[3] = out.result[2]
    /\ out.result[3] # One

(***************************************************************************)
(* C10, as claimed.  For every N >= 1 and every kernel whose values are    *)
(* non-negative or +infinity, every element produced by the ModifiedDCT    *)
(* rule lies in [0, 1] and is never NaN.                                   *)
(***************************************************************************)
C10_NonNegativeKernel ==
    \/ req.api = "wf_iter_cb" /\
          \A i \in DOMAIN req.kern : req.kern[i] = PInf \/ DLe(Zero, req.kern[i])
    \/ req.api = "wf_kbd"

C10_Claimed ==
    (MdctWindow /\ req.len >= 1 /\ C10_NonNegativeKernel) =>
        \A i \in 1..req.len : InUnit(out.result[i])

(***************************************************************************)
(* C10, amended.  For every N >= 1 and every kernel whose values are       *)
(* non-negative or +infinity and not all zero (the total used as divisor   *)
(* is not 0), every element produced by the ModifiedDCT rule lies in       *)
(* [0, 1] and is never NaN.                                                *)
(***************************************************************************)
C10_NonZeroTotal ==
    req.api = "wf_iter_cb" => \E i \in DOMAIN req.kern : req.kern[i] # Zero

C10_UnitInterval ==
    (MdctWindow /\ req.len >= 1 /\ C10_NonNegativeKernel /\ C10_NonZeroTotal) =>
        \A i \in 1..req.len : InUnit(out.result[i])

\* a kernel 1, +infinity, 1 on length 4: the infinite running sum became 1.0
\* and the finite one 0.0
C10_Witness ==
    /\ MdctWindow
    /\ req.api = "wf_iter_cb"
    /\ req.len = 4
    /\ req.kern = [i \in 0..2 |-> IF i = 1 THEN PInf ELSE One]
    /\ out.result = <<Zero, One, One, Zero>>

(***************************************************************************)
(* C11.  For even N and finite kernel values, the array produced by the    *)
(* ModifiedDCT rule is power-complementary (Princen-Bradley) in exact      *)
(* arithmetic: w[n]^2 + w[n + N/2]^2 = 1 for every n in 0..N/2-1.  This is *)
(* stated for the KBD kernel, which satisfies k(j) = k(N/2 - j), and for   *)
(* every caller's kernel that is finite, symmetric in the same way and of  *)
(* non-zero total.                                                         *)
(***************************************************************************)
\* v * v in exact arithmetic
C11_Square(v) == IF v.k = "sqrt" THEN Fin(v.a, v.b) ELSE DMul(v, v)

\* the kernel of the finished call at position j of 0..N/2
C11_Kernel(j) ==
    IF req.api = "wf_kbd"
    THEN wf_kbd_with_param_expr(2 * j, req.len, req.param)
    ELSE req.kern[j]

C11_SymmetricFiniteKernel ==
    /\ req.api \in {"wf_kbd", "wf_iter_cb"}
    /\ \A j \in 0..(req.len \div 2) :
          /\ IsFin(C11_Kernel(j))
          /\ C11_Kernel(j) = C11_Kernel(req.len \div 2 - j)
    /\ \E j \in 0..(req.len \div 2) : C11_Kernel(j) # Zero

C11_PowerComplementary ==
    (MdctWindow /\ req.len % 2 = 0 /\ C11_SymmetricFiniteKernel) =>
        \A n \in 0..(req.len \div 2 - 1) :
            DAdd(C11_Square(out.result[n + 1]),
                 C11_Square(out.result[n + req.len \div 2 + 1])) = One

\* kbd(4, 1): squares 2/11 and 9/11
C11_Witness ==
    /\ MdctWindow
    /\ req.api = "wf_kbd"
    /\ req.param = One
    /\ req.len = 4
    /\ C11_Square(out.result[1]) = Fin(2, 11)
    /\ C11_Square(out.result[3]) = Fin(9, 11)

(***************************************************************************)
(* C16, as claimed.  After any sequence of PCM resize operations, a resize *)
(* from length m to a larger length n leaves elements 0..m-1 unchanged and *)
(* sets elements m..n-1 to 0.0 (also when m is 0 because the buffer was    *)
(* earlier shrunk to 0); a resize to the current length changes nothing.   *)
(***************************************************************************)
C16_Resized == pcm.made /\ pcm.last.op = "rb_pcm_len_set" /\ ~pcm.last.raised

C16_Grown ==
    /\ ~pcm.aborted
    /\ pcm.length = pcm.last.arg
    /\ Len(pcm.data) = pcm.last.arg
    /\ \A i \in 1..pcm.last.length0 : pcm.data[i] = pcm.last.data0[i]
    /\ \A i \in (pcm.last.length0 + 1)..pcm.last.arg : pcm.data[i] = Zero

C16_Untouched ==
    /\ ~pcm.aborted
    /\ pcm.length = pcm.last.length0
    /\ pcm.s = pcm.last.s0
    /\ pcm.data = pcm.last.data0

C16_ResizeKeepsAndZeroFills ==
    C16_Resized =>
        /\ pcm.last.arg > pcm.last.length0 => C16_Grown
        /\ pcm.last.arg = pcm.last.length0 => C16_Untouched

(***************************************************************************)
(* C17, as claimed.  After any sequence of PCM construction and resize     *)
(* operations, whenever the buffer length is 0 the raw sample pointer      *)
(* returned by rb_waveform_data_ptr is NULL.                               *)
(***************************************************************************)
C17_NullWhenEmpty ==
    (PcmAlive /\ pcm.length = 0) => rb_waveform_data_ptr(pcm) = "NULL"

(***************************************************************************)
(* C19.  Under the OneDimensional rule with no override, for every N >= 1  *)
(* the formula is invoked exactly floor(N/2) times, once for each n in     *)
(* [0, N/2) in increasing order, at position n when N is even and n + 0.5  *)
(* when N is odd; the result satisfies w[n] = f(position) for n < N/2, for *)
(* even N w[N-n] = w[n] for 1 <= n < N/2 (index 0 has no mirror), for odd  *)
(* N w[N-1-n] = w[n], and w[N/2] = 1.0.                                    *)
(***************************************************************************)
\* the events of the finished call that are formula calls, in order
C19_FormulaCalls == SelectSeq(out.ev, LAMBDA e : e.e = "formula")

\* the doubled position of the n-th evaluation: 2n (even N), 2(n + 0.5) (odd N)
C19_Position(n) == 2 * n + (req.len % 2)

\* the formula of the request at the doubled position p2, where its value
\* does not depend on static state
C19_Formula(p2) ==
    CASE req.api = "wf_iter_cb" -> req.kern[p2 \div 2]
      [] req.api = "wf_rectangular" -> wf_rectangular_expr(p2, req.len, Zero)
      [] req.api = "wf_bartlett" -> wf_bartlett_expr(p2, req.len, Zero)
      [] req.api = "wf_blackman" -> wf_blackman_expr(p2, req.len, Zero)
      [] req.api = "wf_bartlett_hann" -> wf_bartlett_hann_expr(p2, req.len, Zero)
      [] req.api = "wf_blackman_harris" -> wf_blackman_harris_expr(p2, req.len, Zero)
      [] req.api = "wf_nuttall" -> wf_nuttall_expr(p2, req.len, Zero)
      [] req.api = "wf_blackman_nuttall" -> wf_blackman_nuttall_expr(p2, req.len, Zero)
      [] req.api = "wf_flat_top" -> wf_flat_top_expr(p2, req.len, Zero)
      [] req.api = "wf_hamming" /\ req.argc = 1 -> wf_hamming_expr(p2, req.len, Zero)
      [] req.api = "wf_hann" /\ req.argc = 1 -> wf_hann_expr(p2, req.len, Zero)
      [] req.api \in {"wf_hamming", "wf_hann"} ->
            wf_generalized_hamming_expr(p2, req.len, req.param)
      [] req.api = "wf_gaussian" /\ req.argc = 1 -> wf_gaussian_expr(p2, req.len, Zero)
      [] req.api = "wf_gaussian" ->
            wf_gaussian_with_param_expr(p2, req.len, wf_gaussian_calc_param(req.param))
      [] req.api = "wf_kaiser" /\ req.argc = 1 -> wf_kaiser_expr(p2, req.len, Zero)
      [] OTHER -> wf_kaiser_with_param_expr(p2, req.len, req.param, memo).val

C19_OneDimRuleRan == Done /\ out.returned /\ EvAt({"rule_1d"}) # {}

C20_LiveScratch ==
    Cardinality(EvAt({"alloc_w"})) - Cardinality(EvAt({"free_w"}))

C20_ScratchReleased == Done => C20_LiveScratch = 0

(***************************************************************************)
(* C18.  When two Kaiser(alpha) generations with different alpha are       *)
(* interleaved at the granularity of single formula evaluations, which    *)
(* share the static memo slot of the formula, each call returns the same   *)
(* array it returns when run alone, whatever an earlier call left in the   *)
(* memo slot: the result of a call depends only on its own arguments.      *)
(***************************************************************************)
\* the array kaiser(len, alpha) returns when run alone on the memo slot m
C18_Alone(alpha, len, m) ==
    rb_wf_ary_new(wf_cb_kaiser_with_param(alpha, len, Allocated(len, m))).out.result

C18_InterleavingInvisible ==
    \A i \in DOMAIN calls.c :
        calls.c[i].pc = "done" =>
            \A m \in MemoStates :
                calls.c[i].result = C18_Alone(calls.c[i].alpha, calls.c[i].len, m)

\* kaiser(4, 1/2) and kaiser(4, 3) with alternating evaluations
C18_Witness ==
    /\ pc = "kaiser"
    /\ calls.order = <<1, 2, 1, 2>>
    /\ calls.c[1].pc = "done" /\ calls.c[2].pc = "done"
    /\ calls.c[1].alpha = Fin(1, 2) /\ calls.c[2].alpha = Fin(3, 1)
    /\ calls.c[1].len = 4 /\ calls.c[2].len = 4
    /\ calls.c[1].result # calls.c[2].result
    /\ memo.prev_alpha = Fin(3, 1)

(***************************************************************************)
(* The RIFF/WAVE codec.                                                    *)
(***************************************************************************)
RiffDone == pc = "riff" /\ riff.stage = "done"

\* the reader was called on the file of the state
ReaderRan == RiffDone /\ (riff.pcm_ary = << >> \/ ~riff.wrote.raised)

C12_BadMagic == Len(riff.file) >= 4 /\ Field(riff.file, 0, 4) # TagRIFF

C12_BadFormatTag ==
    Len(riff.file) >= 22 /\ HeaderFields(riff.file).wave_format_type # 1

C12_NoBuffer == \A i \in 1..Len(riff.read.ev) : riff.read.ev[i] # "rb_pcm_new"

C12_ChecksFirst ==
    \A i, j \in 1..Len(riff.read.ev) :
        riff.read.ev[i] = "rb_pcm_new" /\ riff.read.ev[j] = "check" => j < i

\* C12: read_linear_pcm of a file whose first four bytes are not "RIFF" or
\* whose format tag is not 1 raises the semantic error and has created no PCM
\* buffer; whenever it raises the semantic error it has created none, and
\* every check of the header comes before the first PCM buffer is created.
C12_RejectedBeforeBuffers ==
    ReaderRan =>
        /\ C12_BadMagic \/ C12_BadFormatTag =>
               riff.read.raised /\ riff.read.error = "SemanticError" /\ C12_NoBuffer
        /\ riff.read.raised /\ riff.read.error = "SemanticError" => C12_NoBuffer
        /\ C12_ChecksFirst

C12_Witness ==
    /\ ReaderRan
    /\ C12_BadFormatTag
    /\ ~C12_BadMagic
    /\ riff.read.raised
    /\ riff.read.error = "SemanticError"
    /\ Len(riff.read.ev) > 1

\* the conditions on the header, in exact arithmetic
C13_Valid(h) ==
    /\ h.channels # 0
    /\ h.samples_per_sec # U32LE(0)
    /\ h.bytes_per_sec # U32LE(0)
    /\ h.block_size # 0
    /\ h.bits_per_sample # 0
    /\ h.block_size = (h.bits_per_sample \div 8) * h.channels
    /\ MulU32(h.samples_per_sec, h.block_size).carry = 0
    /\ MulU32(h.samples_per_sec, h.block_size).val = h.bytes_per_sec
    /\ ModU32(h.data_chunk_size, h.block_size) = 0
    /\ h.bits_per_sample \in {8, 16, 24, 32}

C13_NoSamples == \A i \in 1..Len(riff.read.ev) : riff.read.ev[i] # "decode"

\* C13: read_linear_pcm accepts a header only if the channel count, sample
\* rate, byte rate, block size and bits per sample are non-zero, the block
\* size is bitsPerSample/8 * channels, the byte rate is sampleRate * blockSize,
\* the data size is a multiple of the block size and the bit depth is one of
\* 8, 16, 24, 32; a header that violates one of these raises the semantic
\* error and no sample is decoded.
C13_AcceptsOnlyValidHeaders ==
    ReaderRan /\ Len(riff.file) >= HeaderLen =>
        /\ ~riff.read.raised => C13_Valid(HeaderFields(riff.file))
        /\ ~C13_Valid(HeaderFields(riff.file)) =>
               riff.read.raised /\ riff.read.error = "SemanticError" /\ C13_NoSamples

\* the sample x, clamped to [-1, 1] and NaN taken as 0, is within 2^-e of
\* num / 2^e
C14_Near(a, b, e, num) ==
    /\ FloorScaled(a, b, e) >= num - 1
    /\ \/ FloorScaled(a, b, e) <= num
       \/ FloorScaled(a, b, e) = num + 1 /\ ExactScaled(a, b, e)

C14_Close(x, d) ==
    CASE x.k = "nan" -> Abs(d.a) <= 1
      [] x.k = "fin" /\ x.a >= x.b -> d.a >= (Pow2(d.b - 1) - 1) + Pow2(d.b - 1)
      [] x.k = "fin" /\ -x.a >= x.b -> d.a <= 1 - (Pow2(d.b - 1) - 1) - Pow2(d.b - 1)
      [] x.k = "fin" /\ d.a < 1 - (Pow2(d.b - 1) - 1) - Pow2(d.b - 1) ->
             x.a < 0 /\ FloorScaled(-x.a, x.b, d.b) >= (Pow2(d.b - 1) - 1) + Pow2(d.b - 1)
      [] x.k = "fin" /\ x.a >= 0 -> C14_Near(x.a, x.b, d.b, d.a)
      [] x.k = "fin" /\ x.a < 0 -> C14_Near(-x.a, x.b, d.b, -d.a)
      [] OTHER -> FALSE

\* the channels written have one length and one rate, the bit depth is
\* supported and every field of the header fits its width
C14_Writable ==
    /\ Len(riff.pcm_ary) >= 1
    /\ \A c \in 1..Len(riff.pcm_ary) :
           /\ riff.pcm_ary[c].fs = riff.pcm_ary[1].fs
           /\ Len(riff.pcm_ary[c].data) = Len(riff.pcm_ary[1].data)
    /\ riff.bits \in {8, 16, 24, 32}
    /\ (riff.bits \div 8) * Len(riff.pcm_ary) <= UINT16_MAX
    /\ MulU32(U32LE(riff.pcm_ary[1].fs), (riff.bits \div 8) * Len(riff.pcm_ary)).carry = 0

C14_DataBytes ==
    DataChunkSize(Len(riff.pcm_ary[1].data), riff.bits, Len(riff.pcm_ary))

\* what was read is what was written, up to the quantization
C14_ReadBack ==
    /\ ~riff.wrote.raised
    /\ ~riff.read.raised
    /\ Len(riff.read.pcm_ary) = Len(riff.pcm_ary)
    /\ \A c \in 1..Len(riff.pcm_ary) :
           /\ riff.read.pcm_ary[c].fs = riff.pcm_ary[c].fs
           /\ Len(riff.read.pcm_ary[c].data) = Len(riff.pcm_ary[c].data)
           /\ \A i \in 1..Len(riff.pcm_ary[c].data) :
                  C14_Close(riff.pcm_ary[c].data[i], riff.read.pcm_ary[c].data[i])

\* C14: for C >= 1 channels of one length L and one rate, a bit depth B of
\* 8, 16, 24 or 32, an even data byte count L*B/8*C and header fields that
\* fit their widths, write_linear_pcm followed by read_linear_pcm returns C
\* buffers of length L with the same rate, each sample within 2^-(B-1) of
\* the written sample clamped to [-1, 1].
C14_RoundTrip ==
    RiffDone /\ C14_Writable /\ C14_DataBytes % 2 = 0 => C14_ReadBack

\* C15: when the data byte count L*B/8*C is odd, write_linear_pcm appends one
\* zero byte to the data chunk and read_linear_pcm of the file returns C
\* buffers of length L with the samples written: the padding byte is neither
\* decoded as a sample nor a reason to reject the file.
C15_OddRoundTrip ==
    RiffDone /\ C14_Writable /\ C14_DataBytes % 2 = 1 =>
        /\ Len(riff.file) = HeaderLen + C14_DataBytes + 1
        /\ riff.file[Len(riff.file)] = 0
        /\ C14_ReadBack

(***************************************************************************)
(* C21.  For every N >= 1 and every finite alpha at which I0(alpha)        *)
(* overflows, kaiser(N, alpha) is the kurtonic pattern.                    *)
(***************************************************************************)
\* the finished call is kaiser(N, alpha) with N >= 1, alpha finite and
\* I0(alpha) = +infinity
C21_Overflowing ==
    /\ Done
    /\ req.api = "wf_kaiser"
    /\ req.argc = 2
    /\ req.len >= 1
    /\ req.param.k = "fin"
    /\ isinf(cyl_bessel_i0_sqrt(DMul(req.param, req.param)))

\* the formula was evaluated at x = 0.5, that is at the doubled position N
C21_AtHalf == \E i \in EvAt({"formula"}) : out.ev[i].a = req.len

\* C21: for N >= 1 and a finite alpha for which I0(alpha) overflows to
\* +infinity, kaiser(N, alpha) returns 1.0 at index N/2 and 0.0 elsewhere,
\* the array of the kurtonic fill, and the 1D rule evaluates the formula at
\* no position with x = 0.5.
C21_OverflowIsKurtonic ==
    C21_Overflowing =>
        /\ out.returned
        /\ out.result = Kurtonic(req.len)
        /\ EvAt({"rule_1d"}) # {}
        /\ ~C21_AtHalf

C21_Witness ==
    /\ C21_Overflowing
    /\ req.len = 5
    /\ memo.reach_inf
    /\ Cardinality(EvAt({"formula"})) = 2
    /\ out.result = <<Zero, Zero, One, Zero, Zero>>

(***************************************************************************)
(* C22, as claimed.  Decoding a sample code and encoding the double again  *)
(* gives the code back.                                                    *)
(***************************************************************************)
\* the signed value of the code: the byte minus 0x80 at 8 bits, the two's
\* complement little-endian number at the other depths
C22_Signed(bits, code) ==
    CASE bits = 8 -> code[1] - 128
      [] bits = 16 -> code[1] + 256 * (IF code[2] >= 128 THEN code[2] - 256 ELSE code[2])
      [] bits = 24 -> code[1] + 256 * code[2]
                        + 65536 * (IF code[3] >= 128 THEN code[3] - 256 ELSE code[3])
      [] OTHER -> code[1] + 256 * code[2] + 65536 * code[3]
                    + 16777216 * (IF code[4] >= 128 THEN code[4] - 256 ELSE code[4])

\* C22: for each bit depth B of 8, 16, 24, 32 and every B-bit sample code c,
\* decode_B(c) is the signed value of c divided by 2^(B-1), which lies in
\* [-1, 1), and encode_B(decode_B(c)) is c.
C22_CodecRoundTrip ==
    pc = "codec" /\ riff.stage = "encoded" =>
        /\ riff.sample = Dyadic(C22_Signed(riff.bits, riff.code), riff.bits - 1)
        /\ riff.sample.a <= (Pow2(riff.bits - 2) - 1) + Pow2(riff.bits - 2)
        /\ riff.sample.a >= (-Pow2(riff.bits - 2)) - Pow2(riff.bits - 2)
        /\ riff.bytes = riff.code

(***************************************************************************)
(* C23, as claimed.  A channel list with two lengths or two rates is       *)
(* refused by the writer.                                                  *)
(***************************************************************************)
\* two buffers of the list written differ in length or in sampling rate
C23_Uneven ==
    \E c, d \in 1..Len(riff.pcm_ary) :
        \/ Len(riff.pcm_ary[c].data) # Len(riff.pcm_ary[d].data)
        \/ riff.pcm_ary[c].fs # riff.pcm_ary[d].fs

\* C23: write_linear_pcm raises an error, before any sample is encoded, for
\* every channel list in which two buffers have different lengths (in any
\* order, a length of 0 included) or different sampling rates.
C23_UnevenChannelsRejected ==
    RiffDone /\ C23_Uneven =>
        /\ riff.wrote.raised
        /\ riff.wrote.error = "RuntimeError"
        /\ Len(riff.file) <= HeaderLen

(***************************************************************************)
(* C24, as claimed.  No storage block of a PCM buffer is released twice.   *)
(***************************************************************************)
\* the last operation passed to xfree the pointer it found in ptr->s
C24_Released ==
    \/ pcm.last.op = "rb_pcm_len_set" /\ pcm.last.arg = 0 /\ pcm.last.s0 # "NULL"
    \/ pcm.last.op = "pcm_free" /\ pcm.last.s0 # "NULL"

\* C24: across any sequence of resizes of a PCM buffer (resize to 0, repeated
\* resize to 0, resize to 0 followed by growth) ending with the destruction
\* of the buffer, every storage block is released at most once and no
\* released block is released or accessed again.
C24_ReleasedAtMostOnce ==
    pc = "pcm" /\ C24_Released => pcm.last.s0 = "live"

(***************************************************************************)
(* C25, as claimed.  The element accesses of map! and of PCM.new with a    *)
(* block stay inside the buffer when the block resizes it.                 *)
(***************************************************************************)
C25_Inside(a) == a.s = "live" /\ 0 <= a.i /\ a.i < a.length

\* C25: while map! (and PCM.new with a block) iterates, every element
\* access s[i] is made with 0 <= i < the current length of the buffer and
\* on its current live storage, also when the block called for element i
\* resized the same buffer (shrink, grow, resize to 0) before returning.
C25_AccessesInside ==
    pc = "iter" => \A k \in DOMAIN calls.acc : C25_Inside(calls.acc[k])

\* the same for the reads alone, which follow the test i < ptr->length
C25_ReadsInside ==
    pc = "iter" =>
        \A k \in DOMAIN calls.acc :
            calls.acc[k].kind = "read" => C25_Inside(calls.acc[k])

(***************************************************************************)
(* C26, as claimed.  The chunked sample loops of the reader and the writer *)
(* handle every frame once, whatever the block size.                       *)
(***************************************************************************)
\* the file of the state is complete and its header passes every check of
\* the reader
C26_HeaderPassed ==
    /\ ReaderRan
    /\ Len(riff.file) >= HeaderLen + U32Nat(HeaderFields(riff.file).data_chunk_size)
    /\ FirstFailure(HeaderSteps(riff.file, HeaderFields(riff.file))) = 0

\* the number of frames the header declares
C26_Frames ==
    U32Nat(HeaderFields(riff.file).data_chunk_size)
        \div HeaderFields(riff.file).block_size

C26_Decoded == {i \in 1..Len(riff.read.ev) : riff.read.ev[i] = "decode"}

\* the size of a full chunk: BUFFER_SIZE / block_size * block_size
C26_ChunkSize(block_size) == (BUFFER_SIZE \div block_size) * block_size

\* the writer was called with channels of one length and one rate and a
\* supported bit depth
C26_Accepted ==
    /\ pc = "riff"
    /\ riff.stage \in {"written", "done"}
    /\ C14_Writable

\* C26: for every header that passes the checks of the reader and every
\* channel list and bit depth the writer accepts, block sizes above the
\* 4096 bytes of the buffer included, the chunked loops end, the size of a
\* chunk is a positive multiple of the block size, and each of the L frames
\* is decoded or encoded exactly once: the reader returns buffers of length
\* L after L decoding steps and the writer leaves L frames in the file,
\* neither passing the end of the chunk buffer.
C26_ChunkedLoopsSound ==
    /\ C26_HeaderPassed /\ C26_Frames >= 1 =>
           /\ C26_ChunkSize(HeaderFields(riff.file).block_size) > 0
           /\ ~riff.read.raised
           /\ Cardinality(C26_Decoded) = C26_Frames
           /\ \A c \in 1..Len(riff.read.pcm_ary) :
                  Len(riff.read.pcm_ary[c].data) = C26_Frames
    /\ C26_Accepted /\ Len(riff.pcm_ary[1].data) >= 1 =>
           /\ C26_ChunkSize((riff.bits \div 8) * Len(riff.pcm_ary)) > 0
           /\ ~riff.wrote.raised
           /\ Len(riff.file) >= HeaderLen + C14_DataBytes

\* the same claim for block sizes that fit the buffer
C26_SoundWhenBlockFits ==
    /\ C26_HeaderPassed /\ C26_Frames >= 1
         /\ HeaderFields(riff.file).block_size <= BUFFER_SIZE =>
           /\ ~riff.read.raised
           /\ Cardinality(C26_Decoded) = C26_Frames
           /\ \A c \in 1..Len(riff.read.pcm_ary) :
                  Len(riff.read.pcm_ary[c].data) = C26_Frames
    /\ C26_Accepted /\ Len(riff.pcm_ary[1].data) >= 1
         /\ (riff.bits \div 8) * Len(riff.pcm_ary) <= BUFFER_SIZE =>
           /\ ~riff.wrote.raised
           /\ Len(riff.file) >= HeaderLen + C14_DataBytes

(***************************************************************************)
(* C27, as claimed.  The header fields written by write_linear_pcm.        *)
(***************************************************************************)
\* the writer accepted its arguments and wrote the file of the state
C27_Written == C26_Accepted /\ ~riff.wrote.raised

C27_BlockSize == (riff.bits \div 8) * Len(riff.pcm_ary)

C27_BlockSizeField == HeaderFields(riff.file).block_size = C27_BlockSize

C27_ByteRateField ==
    /\ HeaderFields(riff.file).bytes_per_sec # U32LE(0)
    /\ HeaderFields(riff.file).bytes_per_sec
         = MulU32(U32LE(riff.pcm_ary[1].fs), C27_BlockSize).val

C27_SampleRateField ==
    /\ HeaderFields(riff.file).samples_per_sec # U32LE(0)
    /\ HeaderFields(riff.file).samples_per_sec = U32LE(riff.pcm_ary[1].fs)

C27_DataSizeField ==
    HeaderFields(riff.file).data_chunk_size
        = U32LE(Len(riff.pcm_ary[1].data) * C27_BlockSize)

\* C27: for every channel count, bit depth of 8, 16, 24 or 32, positive
\* sampling rate and length that write_linear_pcm accepts, the header it
\* writes has a 16-bit block size equal to bits/8 * channels, a non-zero
\* 32-bit byte rate equal to (sampleRate * blockSize) mod 2^32, a non-zero
\* 32-bit sample rate, and a 32-bit data size equal to length * blockSize.
C27_HeaderFieldsConsistent ==
    C27_Written =>
        /\ C27_BlockSizeField
        /\ C27_ByteRateField
        /\ C27_SampleRateField
        /\ C27_DataSizeField

\* block size and sample rate are written as claimed
C27_BlockAndRate == C27_Written => C27_BlockSizeField /\ C27_SampleRateField

\* the byte rate is as claimed when sampleRate * bits fits 32 bits
C27_ByteRateWhenFits ==
    C27_Written /\ MulU32(U32LE(riff.pcm_ary[1].fs), riff.bits).carry = 0 =>
        C27_ByteRateField

\* the data size is as claimed when it is even
C27_DataSizeWhenEven ==
    C27_Written /\ C14_DataBytes % 2 = 0 => C27_DataSizeField

(***************************************************************************)
(* C28, as claimed.  The engine writes the elements 0 .. N-1 of the        *)
(* scratch buffer and nothing else.                                        *)
(***************************************************************************)
\* the engine ran on a buffer of req.len elements
C28_EngineRan == Done /\ out.returned

C28_AllAssigned == \A i \in DOMAIN out.w : out.w[i] # Uninit

\* C28: for every N >= 0, both iteration rules and both special-value
\* fills, the scratch-buffer indices written by the engine are exactly
\* 0 .. N-1: no write lands outside the N-element buffer (none at all when
\* N == 0) and for N >= 1 every element is assigned before the materializer
\* copies it out.
C28_WritesExactlyTheBuffer ==
    C28_EngineRan => out.oob = {} /\ C28_AllAssigned

\* the same for N >= 1
C28_WritesExactlyWhenNonEmpty ==
    C28_EngineRan /\ req.len >= 1 => out.oob = {} /\ C28_AllAssigned

(***************************************************************************)
(* C29, as claimed.  A data chunk shorter than its declared size.          *)
(***************************************************************************)
\* the header of the file passes every check of the reader and the file
\* ends before the declared end of its data chunk
C29_ShortData ==
    /\ ReaderRan
    /\ Len(riff.file) >= HeaderLen
    /\ FirstFailure(HeaderSteps(riff.file, HeaderFields(riff.file))) = 0
    /\ Len(riff.file) < HeaderLen + U32Nat(HeaderFields(riff.file).data_chunk_size)

\* what was returned is what the bytes present decode to, the rest zero
C29_DecodedWhatWasRead ==
    /\ Cardinality(C26_Decoded) <= C26_Frames
    /\ Cardinality(C26_Decoded) * HeaderFields(riff.file).block_size
         <= Len(riff.file) - HeaderLen
    /\ \A c \in 1..Len(riff.read.pcm_ary) :
           Len(riff.read.pcm_ary[c].data) = C26_Frames

\* C29: when a read of the data chunk returns fewer bytes than requested
\* (a file whose data chunk is shorter than its declared size),
\* read_linear_pcm either raises an error or keeps decoding correctly: it
\* never moves its decode pointer past the end of the bytes read, never
\* writes a sample at an index beyond the buffer length, and always ends.
C29_ShortReadHandled ==
    C29_ShortData =>
        /\ riff.read.error # "undefined"
        /\ riff.read.raised \/ C29_DecodedWhatWasRead

\* the same when the bytes present are a whole number of blocks
C29_HandledWhenWholeBlocks ==
    C29_ShortData
      /\ (Len(riff.file) - HeaderLen) % HeaderFields(riff.file).block_size = 0 =>
        /\ riff.read.error # "undefined"
        /\ riff.read.raised \/ C29_DecodedWhatWasRead

\* a short data chunk of whole blocks that is read without an error
C29_ShortAccepted == C29_ShortData /\ ~riff.read.raised

(***************************************************************************)
(* C30, as claimed.  The conditions under RUBY_ASSERT are true whenever    *)
(* they are reached.                                                       *)
(***************************************************************************)
\* the struct PCM as the last operation found it
C30_Before ==
    [length |-> pcm.last.length0, s |-> pcm.last.s0, fs |-> pcm.last.fs0]

\* the last operation was length= or fs= with a valid argument
C30_Resized == pcm.last.op = "rb_pcm_len_set" /\ pcm.last.arg >= 0

C30_RateSet == pcm.last.op = "rb_pcm_fs_set" /\ pcm.last.arg > 0

\* C30: every RUBY_ASSERT of the window engine and of the PCM buffer holds
\* whenever it is reached through the public operations with valid
\* arguments; for the PCM buffer, the conditions asserted on length and
\* storage pointer in pcm_resize and on the sampling rate in pcm_fs_set are
\* true in every reachable state.
C30_AssertionsHold ==
    pc = "pcm" =>
        /\ C30_Resized => pcm_resize_asserts(C30_Before, pcm.last.arg) \subseteq {TRUE}
        /\ C30_RateSet => pcm_fs_set_asserts(C30_Before) \subseteq {TRUE}

\* what the code does guarantee: on a live object the asserted conditions
\* on length and sampling rate are false whenever they are reached
C30_AssertionsInverted ==
    pc = "pcm" =>
        /\ C30_Resized => ~(C30_Before.length < 0)
        /\ C30_RateSet => pcm_fs_set_asserts(C30_Before) = {FALSE}


====
